---- MODULE Spec2Model ----
(***************************************************************************)
(* Model of the job scheduler / worker-pool orchestrator of                *)
(* trafficIngestor/base_traffic_ingestor_yjn.py (class                     *)
(* BaseTrafficIngestor): run(), run_once(), worker_loop(), exec_once(),    *)
(* process_result(), _handle_final_failure().                              *)
(*                                                                         *)
(* A worker thread is identified by <<i, g>>: i is the index of its        *)
(* container in names, g the parity of the batch whose ThreadPoolExecutor  *)
(* started it.  The threads of batch k and of batch k+1 are different      *)
(* threads bound to the same containers.                                   *)
(*                                                                         *)
(* The module holds several specifications over one list of variables:     *)
(*   Spec      the scheduler: run(), run_once(), worker_loop()             *)
(*   SrcSpec   run() over the job source of a subclass (CSV file, table)   *)
(*   GateSpec  the first-exec throttle, _wait_before_first_exec()          *)
(*   MoveSpec  process_result() on one result manifest                     *)
(*   PathSpec  the container-to-host path conversion of process_result()   *)
(*   StatSpec  the counters written under _stats_lock                      *)
(*   LifeSpec  run() from the signal handlers to the exit status           *)
(*   CsvSpec   remove_from_csv() under _csv_lock                           *)
(*   LockSpec  the three locks as the worker threads take them             *)
(*   FairSpec  the scheduler with fair threads and returning callbacks     *)
(* In each of them the variables of the other components keep the values   *)
(* they have after construction.                                           *)
(***************************************************************************)
EXTENDS Integers, Sequences, FiniteSets, TLC

\* ------------------------------------------------- configuration, bounds
\* class attribute CONTAINER_COUNT (3 in the base class, 29 and 420 in the
\* subclasses); the model runs the pool of the spec's scenario
CONTAINER_COUNT == 2
\* class attribute RETRY (5 in the source), the retry budget; scaled down
RETRY == 1
\* largest batch fetch_jobs returns
MaxJobs == 3
\* number of batches after which fetch_jobs reports exhaustion
MaxBatches == 2
\* largest number of exceptions the callbacks raise within one batch: as many
\* as the pool has worker threads, so that each of them can meet one
MaxRaises == CONTAINER_COUNT

Gens == {0, 1}
JobIds == 1..MaxJobs

\* ------------------------------------------------------------- variables
VARIABLES
    entry,      \* "run": run() drives the batches; "run_once": run_once(names, []) is called directly
    ctl,        \* position of the Batch Controller thread
    batch_num,  \* run(): batch_num
    njobs,      \* len(jobs) of the current batch
    submitted,  \* number of pool.submit calls made in the current run_once
    q,          \* queue.Queue contents (FIFO), job ids
    unfinished, \* queue.Queue.unfinished_tasks
    attempt,    \* task["_retry_count"] per job
    term,       \* per job: "none", "ok" (counted in stats.ok), "fail" (counted in stats.fail)
    execs,      \* per job: number of exec_once calls started
    cbOk,       \* per job: number of on_task_success invocations
    cbFail,     \* per job: number of on_task_failed invocations
    start_time, \* task["_start_time"] per job (0: key absent); the clock read at the
                \* job's n-th pop is represented by n
    stats,      \* run_once: stats = {"ok", "fail", "errors"} (errors as a length)
    summary,    \* the batch summary run() logged for the current batch (zeros: none yet)
    raised,     \* number of exceptions the callbacks have raised in the current batch
    wpc,        \* per worker thread: position in worker_loop
    wtask,      \* per worker thread: the job it holds (0: none)
    wkind,      \* per worker thread: failure kind (err) handed to the terminal-failure path ("": none)
    \* -- the job source of a subclass and run() driving it
    source,     \* which subclass runs: "csv" (XTrafficIngestor), "github", "db" ("": not under study)
    rows,       \* the pending rows, in order: ids of the CSV file's rows / ids with empty pcap_path
    has_jobs,   \* self._has_jobs of the CSV-backed subclasses
    rctl,       \* position of run(): "fetch", "batch", "cont", "done" ("idle": not started)
    jobs,       \* run(): jobs, the row ids fetch_jobs returned
    outcome,    \* per job of jobs: "none", "ok", "fail" (its terminal outcome in run_once)
    fetched,    \* history: len(jobs) of every fetch_jobs call so far
    failedAt,   \* per row id: the batch in which on_task_failed was reported for it (0: never)
    \* -- the first-exec throttle gate (_wait_before_first_exec)
    now,                      \* time.monotonic(), in clock ticks
    first_exec_next_ts,       \* self._first_exec_next_ts
    first_exec_done,          \* self._first_exec_done_containers
    first_exec_lock,          \* holder of self._first_exec_lock (0: free)
    gpc,        \* per container: position of its worker thread in _wait_before_first_exec
    scheduled,  \* per container: the local scheduled of its gate pass (-1: none computed)
    wait,       \* per container: the local wait of its gate pass
    calls,      \* per container: number of calls of the gate made for it
    slept,      \* per container: total time.sleep(wait) the gate has requested for it
    \* -- process_result on one result manifest
    manifest,   \* the five required entries of <container>_last.json as result.get() returns them
    ppc,        \* position in process_result
    moved,      \* number of move_and_chown calls completed (they are made in a fixed order)
    success_calls,  \* number of on_task_success invocations
    presult,    \* what exec_once gets back or catches ("": nothing yet)
    new_paths,    \* process_result: the paths the moves have returned, in order
    cb_paths,     \* the paths on_task_success was called with (<<>>: not called)
    reported,     \* worker_loop: how the attempt was recorded ("": not yet)
    \* -- the container-to-host path conversion of process_result
    HOST_CODE_PATH,  \* class attribute HOST_CODE_PATH, a string (sequence of characters)
    path,       \* a path as the manifest gives it
    rewrites,   \* the results of converting path once, and of converting that result again
    \* -- the counters and the lock that guards them
    sctl,         \* run(): "fetch", "run" (inside run_once), "done" ("idle": not started)
    batch_jobs,   \* len(jobs) of the current batch
    jobs_total,   \* number of jobs of all batches fetched so far
    unrecorded,   \* jobs of the batch whose terminal outcome no worker has begun to record
    batch_stats,  \* run_once: stats["ok"], stats["fail"]
    global_ok,    \* self._global_ok
    global_fail,  \* self._global_fail
    stats_lock,   \* holder of self._stats_lock (0: free)
    spc,          \* per worker: position in the recording of an outcome
    sok,          \* per worker: the outcome it records (TRUE: success)
    pbar,         \* self._pbar.n: number of refreshes written to the progress bar
    global_task_time,  \* self._global_task_time
    selapsed,     \* per worker: task_elapsed of the job it records
    sloaded,      \* per worker: the counters as _update_progress has read them
    done_ok,      \* sum of stats["ok"] over the batches run_once has returned from
    done_fail,    \* sum of stats["fail"] over those batches
    \* ---- the process: run() from its first statement to the exit
    lpc,            \* position of the main thread in run()
    handlers,       \* _signal_handler is installed for SIGINT and SIGTERM
    cstate,         \* per container name: "absent", "stopped" or "running"
    created,        \* prepare_pool_once: the list created (as a set of names)
    mapped,         \* names whose check_and_create task has ended in the pool
    exc_in_pool,    \* names whose task ended with SystemExit, kept in its future
    p2i,            \* prepare_pool_once, Pass 2: index of the next name
    exit_status,    \* exit status of the process (-1: still running)
    cycles,         \* batch_num
    inflight,       \* run_once: jobs of the batch not finished yet
    dispatched,     \* jobs handed to the workers so far
    fetch_calls,    \* calls of fetch_jobs so far
    summaries,      \* batch summaries logged so far
    clears,         \* calls of clear_host_code_subdirs from run() so far
    cleanup_calls,  \* calls of cleanup() so far
    bar_open,       \* self._pbar is not None
    warned,         \* run() has logged "WARN: ..." for an exception of the loop
    sentinel,       \* names of the containers that hold /tmp/.offload_disabled
    offload_off,    \* names of the containers whose eth0 has TSO/GSO/GRO off
    tuned,          \* names Pass 3 has called disable_offload_once on
    hook_calls,     \* per name: calls of disable_offload_once so far
    hook_rc,        \* per name: exit status of the last call (-1: no call)
    \* ---- the CSV file and the calls of remove_from_csv
    csv_file,     \* ids of the rows of the file at CSV_PATH, in file order
    csv_orig,     \* the rows before the first call
    csv_kind,     \* the file at CSV_PATH: "missing", "no_header" (no header line), "table"
    tmp_files,    \* number of .csv_*.tmp files in the directory of the CSV file
    carg,         \* per worker: the row_id argument of its call, as passed
    csv_lock,     \* holder of self._csv_lock (0: free)
    cpc,          \* per worker: position in remove_from_csv
    cid,          \* per worker: target_id of its call
    clocal,       \* per worker: rows = list(reader)
    \* ---- the three locks of the ingestor and the threads that take them
    lock_holder,  \* per lock: the worker thread that holds it (0: unlocked)
    tpc,          \* per worker thread: position in its unit of work, as far as locks go
    tunits        \* per worker thread: jobs it has taken from the queue so far

schedvars == <<entry, ctl, batch_num, njobs, submitted, q, unfinished, attempt, term,
               execs, cbOk, cbFail, start_time, stats, summary, raised, wpc, wtask, wkind>>
srcvars == <<source, rows, has_jobs, rctl, jobs, outcome, fetched, failedAt>>
progvars == <<global_task_time, selapsed, sloaded, done_ok, done_fail>>
statvars == <<sctl, batch_jobs, jobs_total, unrecorded, batch_stats, global_ok,
              global_fail, stats_lock, spc, sok, pbar, progvars>>
pathvars == <<HOST_CODE_PATH, path, rewrites>>
movevars == <<manifest, ppc, moved, success_calls, presult, new_paths, cb_paths, reported>>
gatevars == <<now, first_exec_next_ts, first_exec_done, first_exec_lock, gpc, scheduled,
              wait, calls, slept>>
hookvars == <<sentinel, offload_off, tuned, hook_calls, hook_rc>>
lifevars == <<lpc, handlers, cstate, created, mapped, exc_in_pool, p2i, exit_status, cycles,
              inflight, dispatched, fetch_calls, summaries, clears, cleanup_calls, bar_open,
              warned, hookvars>>
csvvars == <<csv_file, csv_orig, csv_kind, tmp_files, carg, csv_lock, cpc, cid, clocal>>
lockvars == <<lock_holder, tpc, tunits>>
vars == <<schedvars, srcvars, gatevars, movevars, pathvars, statvars, lifevars, csvvars, lockvars>>
\* everything but one component's variables
notsched == <<srcvars, gatevars, movevars, pathvars, statvars, lifevars, csvvars, lockvars>>
notsrc == <<schedvars, gatevars, movevars, pathvars, statvars, lifevars, csvvars, lockvars>>
notgate == <<schedvars, srcvars, movevars, pathvars, statvars, lifevars, csvvars, lockvars>>
notmove == <<schedvars, srcvars, gatevars, pathvars, statvars, lifevars, csvvars, lockvars>>
notpath == <<schedvars, srcvars, gatevars, movevars, statvars, lifevars, csvvars, lockvars>>
notstat == <<schedvars, srcvars, gatevars, movevars, pathvars, lifevars, csvvars, lockvars>>
notlife == <<schedvars, srcvars, gatevars, movevars, pathvars, statvars, csvvars, lockvars>>
notcsv == <<schedvars, srcvars, gatevars, movevars, pathvars, statvars, lifevars, lockvars>>
notlock == <<schedvars, srcvars, gatevars, movevars, pathvars, statvars, lifevars, csvvars>>

\* largest number of rows of a job source, and the row ids
MaxRows == 3
RowIds == 1..MaxRows

\* largest pool whose containers pass the throttle gate, and their names
MaxPool == 3
GateNames == 1..MaxPool
\* last tick of the clock, and largest number of gate calls per container
MaxTime == 5
MaxCalls == 2
\* class attribute FIRST_EXEC_INTERVAL (1.0 second); the clock ticks in half seconds
FIRST_EXEC_INTERVAL == 2

\* a component that is not under study sits in its state after construction
SrcIdle ==
    /\ source = ""
    /\ rows = <<>>
    /\ has_jobs = TRUE
    /\ rctl = "idle"
    /\ jobs = <<>>
    /\ outcome = <<>>
    /\ fetched = <<>>
    /\ failedAt = [r \in RowIds |-> 0]

\* __init__: _first_exec_next_ts = 0.0, _first_exec_done_containers = set(), lock free
GateIdle ==
    /\ now = 1
    /\ first_exec_next_ts = 0
    /\ first_exec_done = {}
    /\ first_exec_lock = 0
    /\ gpc = [c \in GateNames |-> "out"]
    /\ scheduled = [c \in GateNames |-> -1]
    /\ wait = [c \in GateNames |-> 0]
    /\ calls = [c \in GateNames |-> 0]
    /\ slept = [c \in GateNames |-> 0]

\* the entries process_result requires, in the order it moves their files
RequiredPaths == <<"pcap_path", "ssl_key_file_path", "content_path", "html_path",
                   "screenshot_path">>

\* no task has been executed: no manifest read
MoveIdle ==
    /\ manifest = [i \in 1..Len(RequiredPaths) |-> "None"]
    /\ ppc = "idle"
    /\ moved = 0
    /\ success_calls = 0
    /\ presult = ""
    /\ new_paths = <<>>
    /\ cb_paths = <<>>
    /\ reported = ""

\* longest path and longest host code root, in characters
MaxPathLen == 8
MaxHostLen == 5

\* no path has been converted
PathIdle ==
    /\ HOST_CODE_PATH = <<"/">>
    /\ path = <<"/">>
    /\ rewrites = <<>>

\* what a worker outside _update_progress has read of the counters: nothing
NoCounters == [ok |-> 0, fail |-> 0, time |-> 0]

\* __init__: _stats_lock free, _global_ok = _global_fail = 0; no batch
StatIdle ==
    /\ sctl = "idle"
    /\ batch_jobs = 0
    /\ jobs_total = 0
    /\ unrecorded = 0
    /\ batch_stats = [ok |-> 0, fail |-> 0]
    /\ global_ok = 0
    /\ global_fail = 0
    /\ stats_lock = 0
    /\ spc = [i \in 1..CONTAINER_COUNT |-> "work"]
    /\ sok = [i \in 1..CONTAINER_COUNT |-> TRUE]
    /\ pbar = 0
    /\ global_task_time = 0
    /\ selapsed = [i \in 1..CONTAINER_COUNT |-> 0]
    /\ sloaded = [i \in 1..CONTAINER_COUNT |-> NoCounters]
    /\ done_ok = 0
    /\ done_fail = 0

\* __init__: run() not entered, no container touched, no progress bar
LifeIdle ==
    /\ lpc = "idle"
    /\ handlers = FALSE
    /\ cstate = [i \in 1..CONTAINER_COUNT |-> "absent"]
    /\ created = {}
    /\ mapped = {}
    /\ exc_in_pool = {}
    /\ p2i = 1
    /\ exit_status = -1
    /\ cycles = 0
    /\ inflight = 0
    /\ dispatched = 0
    /\ fetch_calls = 0
    /\ summaries = 0
    /\ clears = 0
    /\ cleanup_calls = 0
    /\ bar_open = FALSE
    /\ warned = FALSE
    /\ sentinel = {}
    /\ offload_off = {}
    /\ tuned = {}
    /\ hook_calls = [i \in 1..CONTAINER_COUNT |-> 0]
    /\ hook_rc = [i \in 1..CONTAINER_COUNT |-> -1]

\* __init__: _csv_lock free, no call of remove_from_csv
CsvIdle ==
    /\ csv_file = <<>>
    /\ csv_orig = <<>>
    /\ csv_kind = "missing"
    /\ tmp_files = 0
    /\ carg = [i \in 1..CONTAINER_COUNT |-> [pad |-> FALSE, text |-> 0]]
    /\ csv_lock = 0
    /\ cpc = [i \in 1..CONTAINER_COUNT |-> "idle"]
    /\ cid = [i \in 1..CONTAINER_COUNT |-> 0]
    /\ clocal = [i \in 1..CONTAINER_COUNT |-> <<>>]

\* self._stats_lock, self._csv_lock, self._first_exec_lock (threading.Lock, not reentrant)
Locks == {"_stats_lock", "_csv_lock", "_first_exec_lock"}
LockIdle ==
    /\ lock_holder = [l \in Locks |-> 0]
    /\ tpc = [i \in 1..CONTAINER_COUNT |-> "idle"]
    /\ tunits = [i \in 1..CONTAINER_COUNT |-> 0]

\* ---------------------------------------------------------- pure helpers
\* build_container_names: one name per index 0..CONTAINER_COUNT-1 (here 1..CONTAINER_COUNT)
build_container_names == [i \in 1..CONTAINER_COUNT |-> i]

names == build_container_names
Workers == (1..Len(names)) \X Gens
\* worker_loop(container, ...): the container the thread submitted for names[i] drives
containerFirst(w) == names[1]
container(w) == names[w[1]]
gen == batch_num % 2

\* worker_loop, else branch of "if ok" (non-zero exit, failed post-processing):
\* "if attempt < retry: _retry_count = attempt + 1; sleep; put  else: final failure"
OnFailOffByOne(a) == IF a <= RETRY THEN [requeue |-> TRUE, attempt |-> a + 1]
                     ELSE [requeue |-> FALSE, attempt |-> a]
OnFail(a) == IF a < RETRY THEN [requeue |-> TRUE, attempt |-> a + 1]
             ELSE [requeue |-> FALSE, attempt |-> a]

\* worker_loop, except subprocess.TimeoutExpired
OnTimeoutNoCount(a) == IF a < RETRY THEN [requeue |-> TRUE, attempt |-> a]
                       ELSE [requeue |-> FALSE, attempt |-> a]
OnTimeout(a) == IF a < RETRY THEN [requeue |-> TRUE, attempt |-> a + 1]
                ELSE [requeue |-> FALSE, attempt |-> a]

\* worker_loop, except Exception
OnExceptionAlways(a) == [requeue |-> TRUE, attempt |-> a + 1]
OnException(a) == IF a < RETRY THEN [requeue |-> TRUE, attempt |-> a + 1]
                  ELSE [requeue |-> FALSE, attempt |-> a]

\* The outcomes of one exec_once call as worker_loop sees them:
\*   ok         returncode 0, process_result moved the files, on_task_success returned
\*   nonzero    returncode # 0
\*   manifest   returncode 0, manifest unreadable / malformed / incomplete, or a move failed
\*   cb_oserror on_task_success raised an OSError (caught in exec_once as post-processing error)
\*   timeout    run_cmd raised subprocess.TimeoutExpired
\*   exception  any other exception left exec_once, no callback involved
\*   cb_raise   on_task_success raised another exception, which leaves exec_once
Outcomes == {"ok", "nonzero", "manifest", "cb_oserror", "timeout", "exception", "cb_raise"}

\* the callback on_task_success is invoked in these outcomes
CallsSuccess(o) == o \in {"ok", "cb_oserror", "cb_raise"}

\* on_task_success raises in these outcomes
Raises(o) == o \in {"cb_oserror", "cb_raise"}

\* the failure kind worker_loop handles for an outcome
KindOf(o) == CASE o \in {"nonzero"} -> "nonzero"
               [] o \in {"manifest", "cb_oserror"} -> "manifest"
               [] o = "timeout" -> "timeout"
               [] o \in {"exception", "cb_raise"} -> "exception"
               [] OTHER -> ""

\* the retry decision worker_loop takes for a failure kind
Decide(k, a) == CASE k \in {"nonzero", "manifest"} -> OnFail(a)
                  [] k = "timeout" -> OnTimeout(a)
                  [] OTHER -> OnException(a)

\* failure kinds handled inside the try block (the others are handled in an except clause)
InTry(k) == k \in {"nonzero", "manifest"}

\* q.join() returns
QueueJoinedNoWait == TRUE
QueueJoined == unfinished = 0

\* ThreadPoolExecutor.__exit__ (shutdown(wait=True)) returns: every thread of the pool ended
PoolExitedNoWait(g) == TRUE
PoolExited(g) == \A i \in 1..Len(names) : wpc[<<i, g>>] \in {"idle", "returned", "dead"}

\* ------------------------------------------------------------------ Init
\* the scheduler after construction: no batch fetched, no thread started
SchedInit ==
    /\ entry \in {"run", "run_once"}
    /\ ctl = "fetch"
    /\ batch_num = 0
    /\ njobs = 0
    /\ submitted = 0
    /\ q = <<>>
    /\ unfinished = 0
    /\ attempt = [j \in JobIds |-> 0]
    /\ term = [j \in JobIds |-> "none"]
    /\ execs = [j \in JobIds |-> 0]
    /\ cbOk = [j \in JobIds |-> 0]
    /\ cbFail = [j \in JobIds |-> 0]
    /\ start_time = [j \in JobIds |-> 0]
    /\ stats = [ok |-> 0, fail |-> 0, errors |-> 0]
    /\ summary = [ok |-> 0, fail |-> 0, total |-> 0]
    /\ raised = 0
    /\ wpc = [w \in Workers |-> "idle"]
    /\ wtask = [w \in Workers |-> 0]
    /\ wkind = [w \in Workers |-> ""]

Init == SchedInit /\ SrcIdle /\ GateIdle /\ MoveIdle /\ PathIdle /\ StatIdle /\ LifeIdle /\ CsvIdle /\ LockIdle

wvars == <<wpc, wtask, wkind>>
jvars == <<attempt, term, execs, cbOk, cbFail, start_time, raised>>

\* ------------------------------------------------------ Batch Controller
\* run(): jobs = self.fetch_jobs(); if not jobs: break; batch_num += 1.
\* run() never hands an empty list to run_once; with entry = "run_once" a caller
\* does (run_once on a non-empty list is what run() does in its first batch).
FetchJobs ==
    /\ ctl = "fetch"
    /\ \E n \in 0..MaxJobs :
        /\ batch_num >= MaxBatches => n = 0
        /\ entry = "run_once" => n = 0
        /\ njobs' = n
        /\ IF n = 0 /\ entry = "run"
           THEN ctl' = "final" /\ batch_num' = batch_num
           ELSE ctl' = "run_once" /\ batch_num' = batch_num + 1
    /\ summary' = [ok |-> 0, fail |-> 0, total |-> 0]
    /\ UNCHANGED <<entry, submitted, q, unfinished, jvars, stats, wvars>>

\* run_once: a fresh queue filled with the jobs, fresh stats
RunOnceEnqueueSameStats ==
    /\ ctl = "run_once"
    /\ q' = [i \in 1..njobs |-> i]
    /\ unfinished' = njobs
    /\ attempt' = [j \in JobIds |-> 0]
    /\ term' = [j \in JobIds |-> "none"]
    /\ execs' = [j \in JobIds |-> 0]
    /\ cbOk' = [j \in JobIds |-> 0]
    /\ cbFail' = [j \in JobIds |-> 0]
    /\ start_time' = [j \in JobIds |-> 0]
    /\ raised' = 0
    /\ submitted' = 0
    /\ ctl' = "submit"
    /\ UNCHANGED <<entry, batch_num, njobs, summary, stats, wvars>>
RunOnceEnqueue ==
    /\ ctl = "run_once"
    /\ q' = [i \in 1..njobs |-> i]
    /\ unfinished' = njobs
    /\ stats' = [ok |-> 0, fail |-> 0, errors |-> 0]
    /\ attempt' = [j \in JobIds |-> 0]
    /\ term' = [j \in JobIds |-> "none"]
    /\ execs' = [j \in JobIds |-> 0]
    /\ cbOk' = [j \in JobIds |-> 0]
    /\ cbFail' = [j \in JobIds |-> 0]
    /\ start_time' = [j \in JobIds |-> 0]
    /\ raised' = 0
    /\ submitted' = 0
    /\ ctl' = "submit"
    /\ UNCHANGED <<entry, batch_num, njobs, summary, wvars>>

\* run_once: for n in names: pool.submit(self.worker_loop, n, q, stats, self.RETRY)
SubmitWorker ==
    /\ ctl = "submit"
    /\ submitted < Len(names)
    /\ submitted' = submitted + 1
    /\ wpc' = [wpc EXCEPT ![<<submitted + 1, gen>>] = "pop"]
    /\ wtask' = [wtask EXCEPT ![<<submitted + 1, gen>>] = 0]
    /\ wkind' = [wkind EXCEPT ![<<submitted + 1, gen>>] = ""]
    /\ ctl' = IF submitted + 1 = Len(names) THEN "join" ELSE "submit"
    /\ UNCHANGED <<entry, batch_num, njobs, q, unfinished, jvars, stats, summary>>

\* run_once: q.join(), then the with block ends (pool shutdown waits for the threads),
\* then return stats.  The controller does nothing between the two waits and
\* unfinished = 0 is stable once reached, so both are one blocking step.
RunOnceReturnNoBarrier ==
    /\ ctl = "join"
    /\ ctl' = IF entry = "run" THEN "summary" ELSE "exit"
    /\ UNCHANGED <<entry, batch_num, njobs, submitted, q, unfinished, jvars, stats,
                   summary, wvars>>
RunOnceReturn ==
    /\ ctl = "join"
    /\ QueueJoined
    /\ PoolExited(gen)
    /\ ctl' = IF entry = "run" THEN "summary" ELSE "exit"
    /\ UNCHANGED <<entry, batch_num, njobs, submitted, q, unfinished, jvars, stats,
                   summary, wvars>>

\* run(): log "[batch summary] success= fail= total="
BatchSummary ==
    /\ ctl = "summary"
    /\ summary' = [ok |-> stats.ok, fail |-> stats.fail, total |-> njobs]
    /\ ctl' = "clear"
    /\ UNCHANGED <<entry, batch_num, njobs, submitted, q, unfinished, jvars, stats, wvars>>

\* run(): self.clear_host_code_subdirs()
ClearScratch ==
    /\ ctl = "clear"
    /\ ctl' = "cont"
    /\ UNCHANGED <<entry, batch_num, njobs, submitted, q, unfinished, jvars, stats,
                   summary, wvars>>

\* run(): if not self.should_continue(): break   (a hook, either answer)
ShouldContinue ==
    /\ ctl = "cont"
    /\ \E b \in BOOLEAN : ctl' = IF b THEN "fetch" ELSE "final"
    /\ UNCHANGED <<entry, batch_num, njobs, submitted, q, unfinished, jvars, stats,
                   summary, wvars>>

\* run(): finally: close the progress bar, cleanup(); final summary
FinalSummary ==
    /\ ctl = "final"
    /\ ctl' = "exit"
    /\ UNCHANGED <<entry, batch_num, njobs, submitted, q, unfinished, jvars, stats,
                   summary, wvars>>

cvars == <<entry, ctl, batch_num, njobs, submitted, summary>>

\* ---------------------------------------------------------- worker_loop
\* task = q.get_nowait(); except queue.Empty: return;
\* if "_start_time" not in task: task["_start_time"] = time.time()
PopPeek(w) ==
    /\ wpc[w] = "pop"
    /\ IF q = <<>>
       THEN /\ wpc' = [wpc EXCEPT ![w] = "returned"]
            /\ UNCHANGED <<q, wtask, execs, start_time>>
       ELSE /\ wtask' = [wtask EXCEPT ![w] = Head(q)]
            /\ execs' = [execs EXCEPT ![Head(q)] = @ + 1]
            /\ start_time' = [start_time EXCEPT ![Head(q)] = IF @ = 0 THEN execs[Head(q)] + 1 ELSE @]
            /\ wpc' = [wpc EXCEPT ![w] = "exec"]
            /\ UNCHANGED q
    /\ UNCHANGED <<cvars, unfinished, attempt, term, cbOk, cbFail, raised, stats, wkind>>
PopRestamp(w) ==
    /\ wpc[w] = "pop"
    /\ IF q = <<>>
       THEN /\ wpc' = [wpc EXCEPT ![w] = "returned"]
            /\ UNCHANGED <<q, wtask, execs, start_time>>
       ELSE /\ q' = Tail(q)
            /\ wtask' = [wtask EXCEPT ![w] = Head(q)]
            /\ execs' = [execs EXCEPT ![Head(q)] = @ + 1]
            /\ start_time' = [start_time EXCEPT ![Head(q)] = execs[Head(q)] + 1]
            /\ wpc' = [wpc EXCEPT ![w] = "exec"]
    /\ UNCHANGED <<cvars, unfinished, attempt, term, cbOk, cbFail, raised, stats, wkind>>
Pop(w) ==
    /\ wpc[w] = "pop"
    /\ IF q = <<>>
       THEN /\ wpc' = [wpc EXCEPT ![w] = "returned"]
            /\ UNCHANGED <<q, wtask, execs, start_time>>
       ELSE /\ q' = Tail(q)
            /\ wtask' = [wtask EXCEPT ![w] = Head(q)]
            /\ execs' = [execs EXCEPT ![Head(q)] = @ + 1]
            /\ start_time' = [start_time EXCEPT ![Head(q)] = IF @ = 0 THEN execs[Head(q)] + 1 ELSE @]
            /\ wpc' = [wpc EXCEPT ![w] = "exec"]
    /\ UNCHANGED <<cvars, unfinished, attempt, term, cbOk, cbFail, raised, stats, wkind>>

\* ok, err = self.exec_once(task) and the branch worker_loop takes on its outcome
ExecOnce(w) ==
    /\ wpc[w] = "exec"
    /\ \E o \in Outcomes :
        LET j == wtask[w]
            k == KindOf(o)
            d == Decide(k, attempt[j])
        IN  /\ Raises(o) => raised < MaxRaises
            /\ raised' = IF Raises(o) THEN raised + 1 ELSE raised
            /\ cbOk' = [cbOk EXCEPT ![j] = IF CallsSuccess(o) THEN @ + 1 ELSE @]
            /\ IF o = "ok"
               THEN /\ wpc' = [wpc EXCEPT ![w] = "record_ok"]
                    /\ UNCHANGED <<attempt, wkind>>
               ELSE /\ wkind' = [wkind EXCEPT ![w] = IF d.requeue THEN "" ELSE k]
                    /\ attempt' = [attempt EXCEPT ![j] = d.attempt]
                    /\ wpc' = [wpc EXCEPT ![w] = IF d.requeue THEN "backoff" ELSE "final"]
    /\ UNCHANGED <<cvars, q, unfinished, term, execs, cbFail, start_time, stats, wtask>>

\* with self._stats_lock: stats["ok"] += 1; self._update_progress(ok=True, ...)
RecordOk(w) ==
    /\ wpc[w] = "record_ok"
    /\ stats' = [stats EXCEPT !.ok = @ + 1]
    /\ term' = [term EXCEPT ![wtask[w]] = "ok"]
    /\ wtask' = [wtask EXCEPT ![w] = 0]
    /\ wpc' = [wpc EXCEPT ![w] = "taskdone"]
    /\ UNCHANGED <<cvars, q, unfinished, attempt, execs, cbOk, cbFail, start_time, raised, wkind>>

\* time.sleep(2); q.put(task)
RequeueNoPut(w) ==
    /\ wpc[w] = "backoff"
    /\ wtask' = [wtask EXCEPT ![w] = 0]
    /\ wkind' = [wkind EXCEPT ![w] = ""]
    /\ wpc' = [wpc EXCEPT ![w] = "taskdone"]
    /\ UNCHANGED <<cvars, q, unfinished, jvars, stats>>
RequeueSkipTaskDone(w) ==
    /\ wpc[w] = "backoff"
    /\ q' = Append(q, wtask[w])
    /\ unfinished' = unfinished + 1
    /\ wtask' = [wtask EXCEPT ![w] = 0]
    /\ wkind' = [wkind EXCEPT ![w] = ""]
    /\ wpc' = [wpc EXCEPT ![w] = "pop"]
    /\ UNCHANGED <<cvars, jvars, stats>>
Requeue(w) ==
    /\ wpc[w] = "backoff"
    /\ q' = Append(q, wtask[w])
    /\ unfinished' = unfinished + 1
    /\ wtask' = [wtask EXCEPT ![w] = 0]
    /\ wkind' = [wkind EXCEPT ![w] = ""]
    /\ wpc' = [wpc EXCEPT ![w] = "taskdone"]
    /\ UNCHANGED <<cvars, jvars, stats>>

\* _handle_final_failure: self.on_task_failed(task, err); stats["fail"] += 1;
\* stats["errors"].append(...); _update_progress(ok=False).
\* on_task_failed may raise.  Raised from the call inside the try block, the
\* exception is caught by "except Exception", where attempt < retry is false and
\* _handle_final_failure is called again; raised from a call inside an except
\* clause, it leaves worker_loop and the thread ends without q.task_done().
FinalFailure(w) ==
    /\ wpc[w] = "final"
    /\ \E raises \in BOOLEAN :
        LET j == wtask[w]
        IN  /\ raises => raised < MaxRaises
            /\ raised' = IF raises THEN raised + 1 ELSE raised
            /\ cbFail' = [cbFail EXCEPT ![j] = @ + 1]
            /\ IF ~raises
               THEN /\ stats' = [stats EXCEPT !.fail = @ + 1, !.errors = @ + 1]
                    /\ term' = [term EXCEPT ![j] = "fail"]
                    /\ wtask' = [wtask EXCEPT ![w] = 0]
                    /\ wkind' = [wkind EXCEPT ![w] = ""]
                    /\ wpc' = [wpc EXCEPT ![w] = "taskdone"]
               ELSE /\ IF InTry(wkind[w])
                       THEN /\ wkind' = [wkind EXCEPT ![w] = "exception"]
                            /\ wpc' = [wpc EXCEPT ![w] =
                                 IF OnException(attempt[j]).requeue THEN "backoff" ELSE "final"]
                       ELSE /\ wpc' = [wpc EXCEPT ![w] = "dead"]
                            /\ UNCHANGED wkind
                    /\ UNCHANGED <<stats, term, wtask>>
    /\ UNCHANGED <<cvars, q, unfinished, attempt, execs, cbOk, start_time>>

\* q.task_done(), back to the top of the loop
TaskDoneNoCount(w) ==
    /\ wpc[w] = "taskdone"
    /\ wpc' = [wpc EXCEPT ![w] = "pop"]
    /\ UNCHANGED <<cvars, q, unfinished, jvars, stats, wtask, wkind>>
TaskDone(w) ==
    /\ wpc[w] = "taskdone"
    /\ unfinished' = unfinished - 1
    /\ wpc' = [wpc EXCEPT ![w] = "pop"]
    /\ UNCHANGED <<cvars, q, jvars, stats, wtask, wkind>>

\* ------------------------------------------------------------------ Next
Next ==
    \/ FetchJobs /\ UNCHANGED notsched
    \/ RunOnceEnqueue /\ UNCHANGED notsched
    \/ SubmitWorker /\ UNCHANGED notsched
    \/ RunOnceReturn /\ UNCHANGED notsched
    \/ BatchSummary /\ UNCHANGED notsched
    \/ ClearScratch /\ UNCHANGED notsched
    \/ ShouldContinue /\ UNCHANGED notsched
    \/ FinalSummary /\ UNCHANGED notsched
    \/ \E w \in Workers : Pop(w) /\ UNCHANGED notsched
    \/ \E w \in Workers : ExecOnce(w) /\ UNCHANGED notsched
    \/ \E w \in Workers : RecordOk(w) /\ UNCHANGED notsched
    \/ \E w \in Workers : Requeue(w) /\ UNCHANGED notsched
    \/ \E w \in Workers : FinalFailure(w) /\ UNCHANGED notsched
    \/ \E w \in Workers : TaskDone(w) /\ UNCHANGED notsched

Spec == Init /\ [][Next]_vars

\* the steps of one worker thread, and those of the main thread
WorkerStep(w) ==
    /\ Pop(w) \/ ExecOnce(w) \/ RecordOk(w) \/ Requeue(w) \/ FinalFailure(w) \/ TaskDone(w)
    /\ UNCHANGED notsched
ControllerStep ==
    /\ \/ FetchJobs \/ RunOnceEnqueue \/ SubmitWorker \/ RunOnceReturn
       \/ BatchSummary \/ ClearScratch \/ ShouldContinue \/ FinalSummary
    /\ UNCHANGED notsched

\* on_task_success and on_task_failed return normally in this step
CallbacksReturn == raised' = raised

\* the scheduler with callbacks that return normally
FairNext ==
    \/ FetchJobs /\ UNCHANGED notsched
    \/ RunOnceEnqueue /\ UNCHANGED notsched
    \/ SubmitWorker /\ UNCHANGED notsched
    \/ RunOnceReturn /\ UNCHANGED notsched
    \/ BatchSummary /\ UNCHANGED notsched
    \/ ClearScratch /\ UNCHANGED notsched
    \/ ShouldContinue /\ UNCHANGED notsched
    \/ FinalSummary /\ UNCHANGED notsched
    \/ \E w \in Workers : Pop(w) /\ UNCHANGED notsched
    \/ \E w \in Workers : ExecOnce(w) /\ CallbacksReturn /\ UNCHANGED notsched
    \/ \E w \in Workers : RecordOk(w) /\ UNCHANGED notsched
    \/ \E w \in Workers : Requeue(w) /\ UNCHANGED notsched
    \/ \E w \in Workers : FinalFailure(w) /\ CallbacksReturn /\ UNCHANGED notsched
    \/ \E w \in Workers : TaskDone(w) /\ UNCHANGED notsched

\* ... and with threads that are scheduled fairly: a thread that can take a
\* step takes one (docker exec returns or is cut off by its timeout,
\* time.sleep(2) ends, a lock is released by its holder)
FairSpec ==
    /\ Init
    /\ [][FairNext]_vars
    /\ WF_vars(ControllerStep)
    /\ \A w \in Workers : WF_vars(WorkerStep(w))

\* ====================================================== the job sources
\* run() driving one of the subclasses: XTrafficIngestor ("csv") and
\* GithubTrafficIngestor ("github") read a CSV file, NewsReceiverTrafficIngestor
\* ("db") selects the rows of a table whose pcap_path is empty.  run_once is taken
\* by its result: each job of the batch ends with one terminal outcome and the
\* callback of that outcome has been invoked.
Sources == {"csv", "github", "db"}

\* the sequences over S of length at most n
RECURSIVE SeqsUpTo(_, _)
SeqsUpTo(S, n) ==
    IF n = 0 THEN {<<>>}
    ELSE LET shorter == SeqsUpTo(S, n - 1)
         IN shorter \cup {Append(t, x) : t \in {u \in shorter : Len(u) = n - 1}, x \in S}

\* a table's ids are distinct and the query orders them (ORDER BY id)
Ascending(t) == \A i \in 1..(Len(t) - 1) : t[i] < t[i + 1]

\* remove_from_csv: drops the first row whose id matches, and only that one
RECURSIVE remove_from_csv(_, _)
remove_from_csv(rs, row_id) ==
    IF rs = <<>> THEN <<>>
    ELSE IF Head(rs) = row_id THEN Tail(rs)
    ELSE <<Head(rs)>> \o remove_from_csv(Tail(rs), row_id)

\* UPDATE ... SET pcap_path = ... WHERE id = row_id AND pcap_path is empty:
\* the row leaves the set the fetch query selects
db_update(rs, row_id) == SelectSeq(rs, LAMBDA x : x # row_id)

\* should_continue: True in the base class, overridden to False by the CSV-backed subclasses
should_continueAlways(src) == TRUE
should_continue(src) == src = "db"

\* on_task_success / on_task_failed of the subclass on the pending rows; effect is
\* FALSE when the write raises (the callbacks log the exception and return)
on_task_success(src, rs, row_id, effect) ==
    IF ~effect THEN rs
    ELSE IF src = "db" THEN db_update(rs, row_id) ELSE remove_from_csv(rs, row_id)

on_task_failed(src, rs, row_id, effect) ==
    IF ~effect \/ src = "github" THEN rs
    ELSE IF src = "db" THEN db_update(rs, row_id) ELSE remove_from_csv(rs, row_id)

\* the rows of the source when run() starts
SrcStart ==
    /\ source \in Sources
    /\ rows \in SeqsUpTo(RowIds, MaxRows)
    /\ source = "db" => Ascending(rows)
    /\ has_jobs = TRUE
    /\ rctl = "fetch"
    /\ jobs = <<>>
    /\ outcome = <<>>
    /\ fetched = <<>>
    /\ failedAt = [r \in RowIds |-> 0]

\* run(): jobs = self.fetch_jobs(); if not jobs: break.  The database query may
\* raise (fetch_jobs logs it and returns what it has, nothing); after MaxBatches
\* batches it does.
SrcFetch ==
    /\ rctl = "fetch"
    /\ \E reachable \in BOOLEAN :
        /\ Len(fetched) >= MaxBatches => ~reachable
        /\ LET got == IF source = "db" THEN (IF reachable THEN rows ELSE <<>>)
                      ELSE (IF has_jobs THEN rows ELSE <<>>)
           IN /\ jobs' = got
              /\ outcome' = [i \in 1..Len(got) |-> "none"]
              /\ fetched' = Append(fetched, Len(got))
              /\ has_jobs' = IF source # "db" /\ has_jobs /\ got = <<>> THEN FALSE ELSE has_jobs
              /\ rctl' = IF got = <<>> THEN "done" ELSE "batch"
    /\ UNCHANGED <<source, rows, failedAt, notsrc>>

\* run_once, one job: it ends ok (on_task_success is invoked) or failed
\* (on_task_failed is invoked)
SrcRunJob(i) ==
    /\ rctl = "batch"
    /\ outcome[i] = "none"
    /\ \E o \in {"ok", "fail"}, effect \in BOOLEAN :
        /\ outcome' = [outcome EXCEPT ![i] = o]
        /\ rows' = IF o = "ok" THEN on_task_success(source, rows, jobs[i], effect)
                   ELSE on_task_failed(source, rows, jobs[i], effect)
        /\ failedAt' = IF o = "fail" THEN [failedAt EXCEPT ![jobs[i]] = Len(fetched)]
                       ELSE failedAt
    /\ UNCHANGED <<source, has_jobs, rctl, jobs, fetched, notsrc>>

\* run_once returns when every job is terminal; run() logs the summary and
\* clears the scratch directories
SrcBatchDone ==
    /\ rctl = "batch"
    /\ \A i \in 1..Len(jobs) : outcome[i] # "none"
    /\ rctl' = "cont"
    /\ UNCHANGED <<source, rows, has_jobs, jobs, outcome, fetched, failedAt, notsrc>>

\* run(): if not self.should_continue(): break
SrcShouldContinue ==
    /\ rctl = "cont"
    /\ rctl' = IF should_continue(source) THEN "fetch" ELSE "done"
    /\ UNCHANGED <<source, rows, has_jobs, jobs, outcome, fetched, failedAt, notsrc>>

SrcNext ==
    \/ SrcFetch
    \/ \E i \in 1..Len(jobs) : SrcRunJob(i)
    \/ SrcBatchDone
    \/ SrcShouldContinue

SchedIdle == SchedInit /\ entry = "run"

SrcInit == SrcStart /\ SchedIdle /\ GateIdle /\ MoveIdle /\ PathIdle /\ StatIdle /\ LifeIdle /\ CsvIdle /\ LockIdle

SrcSpec == SrcInit /\ [][SrcNext]_vars

\* ================================================ the first-exec throttle
\* _wait_before_first_exec(container), called at the start of every
\* exec_once.  A container has one worker thread at a time, so the calls made
\* for one container follow each other; the calls for different containers
\* interleave.  The with block is entered (acquire), the seen set is tested and
\* the schedule computed (check), the shared fields are written and the lock is
\* released (write), and the sleep happens outside the lock.
Max(a, b) == IF a >= b THEN a ELSE b

\* interval = max(float(self.FIRST_EXEC_INTERVAL), 0.0)
intervalTwice == 2 * Max(FIRST_EXEC_INTERVAL, 0)
interval == Max(FIRST_EXEC_INTERVAL, 0)

gatelocals == <<scheduled, wait>>
gateshared == <<first_exec_next_ts, first_exec_done>>

\* exec_once: self._wait_before_first_exec(container)
GateCall(c) ==
    /\ gpc[c] = "out"
    /\ calls[c] < MaxCalls
    /\ calls' = [calls EXCEPT ![c] = @ + 1]
    /\ gpc' = [gpc EXCEPT ![c] = "acquire"]
    /\ UNCHANGED <<now, gateshared, first_exec_lock, gatelocals, slept, notgate>>

\* with self._first_exec_lock:
GateAcquireNoLock(c) ==
    /\ gpc[c] = "acquire"
    /\ first_exec_lock' = c
    /\ gpc' = [gpc EXCEPT ![c] = "check"]
    /\ UNCHANGED <<now, gateshared, gatelocals, calls, slept, notgate>>
GateAcquire(c) ==
    /\ gpc[c] = "acquire"
    /\ first_exec_lock = 0
    /\ first_exec_lock' = c
    /\ gpc' = [gpc EXCEPT ![c] = "check"]
    /\ UNCHANGED <<now, gateshared, gatelocals, calls, slept, notgate>>

\* if container in self._first_exec_done_containers: return (the lock is released);
\* else now = time.monotonic(); scheduled = max(now, self._first_exec_next_ts)
GateCheckNoSeen(c) ==
    /\ gpc[c] = "check"
    /\ scheduled' = [scheduled EXCEPT ![c] = Max(now, first_exec_next_ts)]
    /\ wait' = [wait EXCEPT ![c] = Max(now, first_exec_next_ts) - now]
    /\ gpc' = [gpc EXCEPT ![c] = "write"]
    /\ UNCHANGED <<now, gateshared, first_exec_lock, calls, slept, notgate>>
GateCheck(c) ==
    /\ gpc[c] = "check"
    /\ IF c \in first_exec_done
       THEN /\ first_exec_lock' = 0
            /\ gpc' = [gpc EXCEPT ![c] = "out"]
            /\ UNCHANGED gatelocals
       ELSE /\ scheduled' = [scheduled EXCEPT ![c] = Max(now, first_exec_next_ts)]
            /\ wait' = [wait EXCEPT ![c] = Max(now, first_exec_next_ts) - now]
            /\ gpc' = [gpc EXCEPT ![c] = "write"]
            /\ UNCHANGED first_exec_lock
    /\ UNCHANGED <<now, gateshared, calls, slept, notgate>>

\* self._first_exec_next_ts = scheduled + interval; the container joins the seen
\* set; the with block ends; wait = scheduled - now; if wait > 0: time.sleep(wait)
GateWrite(c) ==
    /\ gpc[c] = "write"
    /\ first_exec_next_ts' = scheduled[c] + interval
    /\ first_exec_done' = first_exec_done \cup {c}
    /\ first_exec_lock' = 0
    /\ IF wait[c] > 0
       THEN gpc' = [gpc EXCEPT ![c] = "sleep"] /\ slept' = [slept EXCEPT ![c] = @ + wait[c]]
       ELSE gpc' = [gpc EXCEPT ![c] = "out"] /\ slept' = slept
    /\ UNCHANGED <<now, gatelocals, calls, notgate>>

\* time.sleep(wait) returns: not before the scheduled time
GateWake(c) ==
    /\ gpc[c] = "sleep"
    /\ now >= scheduled[c]
    /\ gpc' = [gpc EXCEPT ![c] = "out"]
    /\ UNCHANGED <<now, gateshared, first_exec_lock, gatelocals, calls, slept, notgate>>

\* the monotonic clock advances
Tick ==
    /\ now < MaxTime
    /\ now' = now + 1
    /\ UNCHANGED <<gateshared, first_exec_lock, gpc, gatelocals, calls, slept, notgate>>

GateNext ==
    \/ \E c \in GateNames : GateCall(c)
    \/ \E c \in GateNames : GateAcquire(c)
    \/ \E c \in GateNames : GateCheck(c)
    \/ \E c \in GateNames : GateWrite(c)
    \/ \E c \in GateNames : GateWake(c)
    \/ Tick

GateInit == GateIdle /\ SchedIdle /\ SrcIdle /\ MoveIdle /\ PathIdle /\ StatIdle /\ LifeIdle /\ CsvIdle /\ LockIdle

GateSpec == GateInit /\ [][GateNext]_vars

\* ======================================================== process_result
\* exec_once after a zero exit status: process_result reads the result manifest,
\* validates it, moves the five files and invokes on_task_success; exec_once
\* turns JSONDecodeError, FileNotFoundError and OSError into a failed attempt,
\* any other exception reaches worker_loop.
\* An entry of the manifest is "None" (key absent or null), "" or a path.
EntryValues == {"None", "", "path"}

\* Python truth value of an entry
Truthy(v) == v \notin {"None", ""}

\* all([pcap_path, ssl_key_file_path, content_path, html_path, screenshot_path])
AnyPresent(m) == \E i \in 1..Len(RequiredPaths) : Truthy(m[i])
AllPresent(m) == \A i \in 1..Len(RequiredPaths) : Truthy(m[i])

\* the manifest the container left behind
MoveStart ==
    /\ manifest \in [1..Len(RequiredPaths) -> EntryValues]
    /\ ppc = "read"
    /\ moved = 0
    /\ success_calls = 0
    /\ presult = ""
    /\ new_paths = <<>>
    /\ cb_paths = <<>>
    /\ reported = ""

\* with open(meta_path) as f: result = json.load(f)
ReadManifest ==
    /\ ppc = "read"
    /\ \E readable \in BOOLEAN :
        IF readable THEN ppc' = "validate" /\ presult' = presult
        ELSE ppc' = "done" /\ presult' = "post-processing error"
    /\ UNCHANGED <<manifest, moved, success_calls, new_paths, cb_paths, reported, notmove>>

\* if not all([...]): return False, "result JSON missing required paths"
Validate ==
    /\ ppc = "validate"
    /\ IF AllPresent(manifest)
       THEN ppc' = "move" /\ presult' = presult
       ELSE ppc' = "done" /\ presult' = "result JSON missing required paths"
    /\ UNCHANGED <<manifest, moved, success_calls, new_paths, cb_paths, reported, notmove>>

\* move_and_chown returns what shutil.move returns: the file's path in the
\* destination directory of its kind (BASE_DST/<kind>/<date>/<domain>/<name>)
new_path(i) == <<"BASE_DST", RequiredPaths[i]>>

\* the next move_and_chown: makedirs and shutil.move may raise OSError (chown
\* errors are swallowed by chown_recursive)
MoveAndChownFourOnly ==
    /\ ppc = "move"
    /\ \E raises \in BOOLEAN :
        IF raises
        THEN /\ ppc' = "done" /\ presult' = "post-processing error" /\ moved' = moved
             /\ UNCHANGED new_paths
        ELSE /\ moved' = moved + 1
             /\ new_paths' = Append(new_paths, new_path(moved + 1))
             /\ ppc' = IF moved + 1 >= Len(RequiredPaths) - 1 THEN "callback" ELSE "move"
             /\ presult' = presult
    /\ UNCHANGED <<manifest, success_calls, cb_paths, reported, notmove>>
MoveAndChown ==
    /\ ppc = "move"
    /\ \E raises \in BOOLEAN :
        IF raises
        THEN /\ ppc' = "done" /\ presult' = "post-processing error" /\ moved' = moved
             /\ UNCHANGED new_paths
        ELSE /\ moved' = moved + 1
             /\ new_paths' = Append(new_paths, new_path(moved + 1))
             /\ ppc' = IF moved + 1 = Len(RequiredPaths) THEN "callback" ELSE "move"
             /\ presult' = presult
    /\ UNCHANGED <<manifest, success_calls, cb_paths, reported, notmove>>

\* self.on_task_success(task, {...}); return True, ""
SuccessCallback ==
    /\ ppc = "callback"
    /\ success_calls' = success_calls + 1
    /\ \E o \in {"returns", "OSError", "other"} :
        presult' = CASE o = "returns" -> "ok"
                     [] o = "OSError" -> "post-processing error"
                     [] OTHER -> "exception"
    /\ cb_paths' = new_paths
    /\ ppc' = "done"
    /\ UNCHANGED <<manifest, moved, new_paths, reported, notmove>>

\* exec_once returns (ok, err) or lets the exception through; worker_loop:
\* "if ok:" stats["ok"] += 1, otherwise the attempt is handled as a failure
ReportAttempt ==
    /\ ppc = "done"
    /\ reported = ""
    /\ reported' = IF presult = "ok" THEN "ok" ELSE "fail"
    /\ UNCHANGED <<manifest, ppc, moved, success_calls, presult, new_paths, cb_paths, notmove>>

MoveNext ==
    \/ ReadManifest
    \/ Validate
    \/ MoveAndChown
    \/ SuccessCallback
    \/ ReportAttempt

MoveInit == MoveStart /\ SchedIdle /\ SrcIdle /\ GateIdle /\ PathIdle /\ StatIdle /\ LifeIdle /\ CsvIdle /\ LockIdle

MoveSpec == MoveInit /\ [][MoveNext]_vars

\* ============================================== container-to-host paths
\* process_result: pcap_path = pcap_path.replace("/app", self.HOST_CODE_PATH), and
\* the same for the four other entries.  Strings are sequences of characters;
\* the alphabet has the characters of "/app".
Chars == {"/", "a", "p"}

\* the literal "/app"
SandboxPrefix == <<"/", "a", "p", "p">>

\* s[from..]
Rest(s, from) == SubSeq(s, from, Len(s))

StartsWith(s, prefix) == Len(s) >= Len(prefix) /\ SubSeq(s, 1, Len(prefix)) = prefix

\* str.replace(old, new): every occurrence of old, found left to right without
\* overlap, is replaced by new (old is not empty)
RECURSIVE str_replace(_, _, _)
str_replace(s, old, new) ==
    IF Len(s) < Len(old) THEN s
    ELSE IF StartsWith(s, old) THEN new \o str_replace(Rest(s, Len(old) + 1), old, new)
    ELSE <<Head(s)>> \o str_replace(Tail(s), old, new)

\* absolute paths of at most n characters
AbsPaths(n) == {s \in SeqsUpTo(Chars, n) : s # <<>> /\ s[1] = "/"}

\* HOST_CODE_PATH is os.path.join(_project_root, ...), an absolute path; the
\* manifest's paths are absolute paths inside or outside the container's /app
PathStart ==
    /\ HOST_CODE_PATH \in AbsPaths(MaxHostLen)
    /\ path \in AbsPaths(MaxPathLen)
    /\ rewrites = <<>>

\* the conversion of process_result, applied to the manifest's path
Rewrite ==
    /\ rewrites = <<>>
    /\ rewrites' = <<str_replace(path, SandboxPrefix, HOST_CODE_PATH)>>
    /\ UNCHANGED <<HOST_CODE_PATH, path, notpath>>

\* the conversion applied to a path that is already converted
RewriteAgain ==
    /\ Len(rewrites) = 1
    /\ rewrites' = Append(rewrites, str_replace(rewrites[1], SandboxPrefix, HOST_CODE_PATH))
    /\ UNCHANGED <<HOST_CODE_PATH, path, notpath>>

PathNext ==
    \/ Rewrite
    \/ RewriteAgain

PathInit == PathStart /\ SchedIdle /\ SrcIdle /\ GateIdle /\ MoveIdle /\ StatIdle /\ LifeIdle /\ CsvIdle /\ LockIdle

PathSpec == PathInit /\ [][PathNext]_vars

\* ================================================= counters and their lock
\* The statistics of a run: run_once's per-batch stats and the global counters
\* behind the progress bar, both written by the worker threads under
\* self._stats_lock.  A worker records the terminal outcome of a job in two
\* critical sections: stats["ok"] += 1 or stats["fail"] += 1, then
\* _update_progress.  Each job of a batch is recorded at most once.
StatWorkers == 1..Len(names)

\* task_elapsed of a job, in whole seconds
Elapsed == {1, 2}

\* run(): the global counters are zeroed once, before the loop
StatStart ==
    /\ sctl = "fetch"
    /\ batch_jobs = 0
    /\ jobs_total = 0
    /\ unrecorded = 0
    /\ batch_stats = [ok |-> 0, fail |-> 0]
    /\ global_ok = 0
    /\ global_fail = 0
    /\ stats_lock = 0
    /\ spc = [w \in StatWorkers |-> "work"]
    /\ sok = [w \in StatWorkers |-> TRUE]
    /\ pbar = 0
    /\ global_task_time = 0
    /\ selapsed = [w \in StatWorkers |-> 0]
    /\ sloaded = [w \in StatWorkers |-> NoCounters]
    /\ done_ok = 0
    /\ done_fail = 0

statcounters == <<batch_stats, global_ok, global_fail>>

\* run(): jobs = self.fetch_jobs(); if not jobs: break; run_once: stats = {"ok": 0, "fail": 0, ...}
\* (the source holds at most MaxJobs * MaxBatches jobs in all)
StatBatchStart ==
    /\ sctl = "fetch"
    /\ \E n \in 0..MaxJobs :
        /\ jobs_total + n <= MaxJobs * MaxBatches
        /\ IF n = 0
           THEN sctl' = "done" /\ UNCHANGED <<batch_jobs, jobs_total, unrecorded, batch_stats>>
           ELSE /\ sctl' = "run"
                /\ batch_jobs' = n
                /\ jobs_total' = jobs_total + n
                /\ unrecorded' = n
                /\ batch_stats' = [ok |-> 0, fail |-> 0]
    /\ UNCHANGED <<global_ok, global_fail, stats_lock, spc, sok, pbar, progvars, notstat>>

\* worker_loop: a job reaches its terminal outcome on this worker
StatOutcome(w) ==
    /\ sctl = "run"
    /\ spc[w] = "work"
    /\ unrecorded > 0
    /\ unrecorded' = unrecorded - 1
    /\ \E ok \in BOOLEAN : sok' = [sok EXCEPT ![w] = ok]
    /\ \E task_elapsed \in Elapsed : selapsed' = [selapsed EXCEPT ![w] = task_elapsed]
    /\ spc' = [spc EXCEPT ![w] = "enter_stats"]
    /\ UNCHANGED <<sctl, batch_jobs, jobs_total, statcounters, stats_lock, pbar,
                   global_task_time, sloaded, done_ok, done_fail, notstat>>

\* with self._stats_lock: (either critical section)
StatAcquireNoWait(w) ==
    /\ spc[w] \in {"enter_stats", "enter_progress"}
    /\ stats_lock' = w
    /\ spc' = [spc EXCEPT ![w] = IF spc[w] = "enter_stats" THEN "in_stats" ELSE "load_progress"]
    /\ UNCHANGED <<sctl, batch_jobs, jobs_total, unrecorded, statcounters, sok, pbar, progvars,
                   notstat>>
StatAcquire(w) ==
    /\ spc[w] \in {"enter_stats", "enter_progress"}
    /\ stats_lock = 0
    /\ stats_lock' = w
    /\ spc' = [spc EXCEPT ![w] = IF spc[w] = "enter_stats" THEN "in_stats" ELSE "load_progress"]
    /\ UNCHANGED <<sctl, batch_jobs, jobs_total, unrecorded, statcounters, sok, pbar, progvars,
                   notstat>>

\* stats["ok"] += 1 / stats["fail"] += 1 (and errors.append), end of the with block
StatCountUnlocked(w) ==
    /\ spc[w] \in {"enter_stats", "in_stats"}
    /\ batch_stats' = IF sok[w] THEN [batch_stats EXCEPT !.ok = @ + 1]
                      ELSE [batch_stats EXCEPT !.fail = @ + 1]
    /\ stats_lock' = IF stats_lock = w THEN 0 ELSE stats_lock
    /\ spc' = [spc EXCEPT ![w] = "enter_progress"]
    /\ UNCHANGED <<sctl, batch_jobs, jobs_total, unrecorded, global_ok, global_fail, sok, pbar,
                   progvars, notstat>>
StatCount(w) ==
    /\ spc[w] = "in_stats"
    /\ batch_stats' = IF sok[w] THEN [batch_stats EXCEPT !.ok = @ + 1]
                      ELSE [batch_stats EXCEPT !.fail = @ + 1]
    /\ stats_lock' = 0
    /\ spc' = [spc EXCEPT ![w] = "enter_progress"]
    /\ UNCHANGED <<sctl, batch_jobs, jobs_total, unrecorded, global_ok, global_fail, sok, pbar,
                   progvars, notstat>>

\* _update_progress, "self._global_ok += 1" and its like: the right-hand
\* sides are evaluated from the attributes as they are now
StatProgressLoad(w) ==
    /\ spc[w] = "load_progress"
    /\ sloaded' = [sloaded EXCEPT ![w] =
                      [ok |-> global_ok, fail |-> global_fail, time |-> global_task_time]]
    /\ spc' = [spc EXCEPT ![w] = "in_progress"]
    /\ UNCHANGED <<sctl, batch_jobs, jobs_total, unrecorded, statcounters, stats_lock, sok, pbar,
                   global_task_time, selapsed, done_ok, done_fail, notstat>>

\* _update_progress: the sums are stored (_global_ok or _global_fail, and
\* _global_task_time), then self._pbar.set_description(...) and
\* self._pbar.update(1) (run() has created the bar before the first batch),
\* all inside the with block, which then ends
StatProgress(w) ==
    /\ spc[w] = "in_progress"
    /\ global_ok' = IF sok[w] THEN sloaded[w].ok + 1 ELSE global_ok
    /\ global_fail' = IF sok[w] THEN global_fail ELSE sloaded[w].fail + 1
    /\ global_task_time' = sloaded[w].time + selapsed[w]
    /\ sloaded' = [sloaded EXCEPT ![w] = NoCounters]
    /\ pbar' = pbar + 1
    /\ stats_lock' = 0
    /\ spc' = [spc EXCEPT ![w] = "work"]
    /\ UNCHANGED <<sctl, batch_jobs, jobs_total, unrecorded, batch_stats, sok, selapsed,
                   done_ok, done_fail, notstat>>

\* run_once: q.join() and the pool's shutdown are over; run() logs the summary
StatBatchEnd ==
    /\ sctl = "run"
    /\ unrecorded = 0
    /\ \A w \in StatWorkers : spc[w] = "work"
    /\ sctl' = "fetch"
    /\ done_ok' = done_ok + batch_stats.ok
    /\ done_fail' = done_fail + batch_stats.fail
    /\ UNCHANGED <<batch_jobs, jobs_total, unrecorded, statcounters, stats_lock, spc, sok,
                   pbar, global_task_time, selapsed, sloaded, notstat>>

StatNext ==
    \/ StatBatchStart
    \/ \E w \in StatWorkers : StatOutcome(w)
    \/ \E w \in StatWorkers : StatAcquire(w)
    \/ \E w \in StatWorkers : StatCount(w)
    \/ \E w \in StatWorkers : StatProgressLoad(w)
    \/ \E w \in StatWorkers : StatProgress(w)
    \/ StatBatchEnd

StatInit == StatStart /\ SchedIdle /\ SrcIdle /\ GateIdle /\ MoveIdle /\ PathIdle /\ LifeIdle /\ CsvIdle /\ LockIdle

StatSpec == StatInit /\ [][StatNext]_vars

\* ===================================================== the process: run()
\* run() from its first statement to the exit of the process: signal handlers,
\* setup(), prepare_pool_once with its three passes, the batch loop (a batch is
\* a number of jobs in flight), the finally block and the final summary.  The
\* docker daemon is the environment: a command succeeds or fails, and a failed
\* "docker run" leaves the container absent or created-but-not-started.
ContainerStates == {"absent", "stopped", "running"}

\* most calls of disable_offload_once on one container
MaxHookCalls == 2

\* signal.SIGINT, signal.SIGTERM
Signals == {2, 15}

Running == exit_status = -1

\* main(): remove_containers() ignores the result of "docker rm -f", so run()
\* may find any of the containers in any state; one that exists may have been
\* tuned by an earlier run (sentinel file written after ethtool succeeded)
LifeStart ==
    /\ lpc = "signal"
    /\ handlers = FALSE
    /\ cstate \in [1..CONTAINER_COUNT -> ContainerStates]
    /\ created = {}
    /\ mapped = {}
    /\ exc_in_pool = {}
    /\ p2i = 1
    /\ exit_status = -1
    /\ cycles = 0
    /\ inflight = 0
    /\ dispatched = 0
    /\ fetch_calls = 0
    /\ summaries = 0
    /\ clears = 0
    /\ cleanup_calls = 0
    /\ bar_open = FALSE
    /\ warned = FALSE
    /\ sentinel \in SUBSET {n \in 1..CONTAINER_COUNT : cstate[n] # "absent"}
    /\ offload_off = sentinel
    /\ tuned = {}
    /\ hook_calls = [i \in 1..CONTAINER_COUNT |-> 0]
    /\ hook_rc = [i \in 1..CONTAINER_COUNT |-> -1]

poolvars == <<cstate, created, mapped, exc_in_pool, p2i, hookvars>>
loopvars == <<cycles, inflight, dispatched, fetch_calls, summaries, clears>>
endvars == <<cleanup_calls, bar_open, warned>>

\* sys.exit(code) in the main thread, outside the try block of run():
\* SystemExit ends the process with that status
SysExit(code) ==
    /\ exit_status' = code
    /\ lpc' = "exited"

\* run(): signal.signal(SIGINT, ...); signal.signal(SIGTERM, ...)
InstallHandlers ==
    /\ Running /\ lpc = "signal"
    /\ handlers' = TRUE
    /\ lpc' = "setup"
    /\ UNCHANGED <<exit_status, poolvars, loopvars, endvars, notlife>>

\* run(): self.setup() -- a no-op in the base class; the database source
\* connects and calls sys.exit(1) when the connection fails
Setup ==
    /\ Running /\ lpc = "setup"
    /\ \E connected \in BOOLEAN :
        IF connected THEN lpc' = "docker" /\ UNCHANGED exit_status ELSE SysExit(1)
    /\ UNCHANGED <<handlers, poolvars, loopvars, endvars, notlife>>

\* prepare_pool_once: self.ensure_docker_available() -- sys.exit(2) when
\* "docker version" raises
ensure_docker_available ==
    /\ Running /\ lpc = "docker"
    /\ \E available \in BOOLEAN :
        IF available THEN lpc' = "pass1" /\ UNCHANGED exit_status ELSE SysExit(2)
    /\ UNCHANGED <<handlers, poolvars, loopvars, endvars, notlife>>

\* container_exists(name): None when "docker inspect" fails, True otherwise
container_exists(n) == cstate[n] # "absent"

\* container_running(name)
container_running(n) == cstate[n] = "running"

\* Pass 1, one task of pool.map(check_and_create, names), run by a pool
\* thread: a missing container is created.  When "docker run" fails,
\* create_container calls sys.exit(2) in that pool thread: the SystemExit ends
\* the task and is stored in its future, which nobody reads (the iterator
\* returned by pool.map is dropped).
check_and_create(n) ==
    /\ Running /\ lpc = "pass1"
    /\ n \notin mapped
    /\ mapped' = mapped \cup {n}
    /\ IF container_exists(n)
       THEN UNCHANGED <<cstate, created, exc_in_pool>>
       ELSE \E rc \in {"ok", "failed"} :
              IF rc = "ok"
              THEN /\ cstate' = [cstate EXCEPT ![n] = "running"]
                   /\ created' = created \cup {n}
                   /\ UNCHANGED exc_in_pool
              ELSE /\ \E left \in {"absent", "stopped"} :
                        cstate' = [cstate EXCEPT ![n] = left]
                   /\ exc_in_pool' = exc_in_pool \cup {n}
                   /\ UNCHANGED created
    /\ UNCHANGED <<lpc, handlers, p2i, exit_status, hookvars, loopvars, endvars, notlife>>

\* Pass 1: the with block of the pool ends when every task has ended
Pass1Done ==
    /\ Running /\ lpc = "pass1"
    /\ mapped = 1..CONTAINER_COUNT
    /\ lpc' = "pass2"
    /\ UNCHANGED <<handlers, exit_status, poolvars, loopvars, endvars, notlife>>

\* Pass 2, one turn of the loop in the main thread: a container that is not
\* running is started; start_container calls sys.exit(2) when "docker start"
\* fails (as it does for a container that does not exist)
Pass2Step ==
    /\ Running /\ lpc = "pass2"
    /\ p2i <= CONTAINER_COUNT
    /\ LET n == names[p2i]
       IN  IF container_running(n)
           THEN /\ p2i' = p2i + 1
                /\ UNCHANGED <<cstate, exit_status, lpc>>
           ELSE \E started \in BOOLEAN :
                  /\ started => cstate[n] = "stopped"
                  /\ IF started
                     THEN /\ cstate' = [cstate EXCEPT ![n] = "running"]
                          /\ p2i' = p2i + 1
                          /\ UNCHANGED <<exit_status, lpc>>
                     ELSE /\ SysExit(2)
                          /\ UNCHANGED <<cstate, p2i>>
    /\ UNCHANGED <<handlers, created, mapped, exc_in_pool, hookvars, loopvars, endvars, notlife>>

\* disable_offload_once(name), the script run in the container: exit 0 when
\* the sentinel file is there; otherwise ethtool, and the sentinel is written
\* when ethtool succeeded; the exit status is ethtool's (a failure is only
\* logged as a warning)
disable_offload_onceNoSentinelTest(n) ==
    /\ hook_calls' = [hook_calls EXCEPT ![n] = @ + 1]
    /\ \E rc \in {0, 1} :
          /\ hook_rc' = [hook_rc EXCEPT ![n] = rc]
          /\ IF rc = 0
             THEN sentinel' = sentinel \cup {n} /\ offload_off' = offload_off \cup {n}
             ELSE UNCHANGED <<sentinel, offload_off>>
disable_offload_once(n) ==
    /\ hook_calls' = [hook_calls EXCEPT ![n] = @ + 1]
    /\ IF n \in sentinel
       THEN /\ hook_rc' = [hook_rc EXCEPT ![n] = 0]
            /\ UNCHANGED <<sentinel, offload_off>>
       ELSE \E rc \in {0, 1} :
              /\ hook_rc' = [hook_rc EXCEPT ![n] = rc]
              /\ IF rc = 0
                 THEN sentinel' = sentinel \cup {n} /\ offload_off' = offload_off \cup {n}
                 ELSE UNCHANGED <<sentinel, offload_off>>

\* prepare_pool_once after Pass 2 and time.sleep(5), one turn of Pass 3:
\* for n in created: self.disable_offload_once(n)
Pass3Step ==
    /\ Running /\ lpc = "pass2"
    /\ p2i > CONTAINER_COUNT
    /\ \E n \in created \ tuned :
          /\ tuned' = tuned \cup {n}
          /\ disable_offload_once(n)
    /\ UNCHANGED <<lpc, handlers, exit_status, cstate, created, mapped, exc_in_pool, p2i,
                   loopvars, endvars, notlife>>

\* a further call of disable_offload_once(name) on a running container of the
\* pool, the case its sentinel test is written for (at most MaxHookCalls
\* calls per container)
disable_offload_again(n) ==
    /\ Running /\ lpc = "fetch"
    /\ hook_calls[n] < MaxHookCalls
    /\ disable_offload_once(n)
    /\ UNCHANGED <<lpc, handlers, exit_status, cstate, created, mapped, exc_in_pool, p2i,
                   tuned, loopvars, endvars, notlife>>

\* prepare_pool_once: Pass 3 is over, return names; run(): the global
\* counters are zeroed and the progress bar is created
PoolReady ==
    /\ Running /\ lpc = "pass2"
    /\ p2i > CONTAINER_COUNT
    /\ tuned = created
    /\ bar_open' = TRUE
    /\ lpc' = "fetch"
    /\ UNCHANGED <<handlers, exit_status, poolvars, loopvars, cleanup_calls, warned, notlife>>

\* run(): jobs = self.fetch_jobs(); an exception goes to the except clause,
\* an empty list ends the loop, otherwise run_once is entered
LifeFetch ==
    /\ Running /\ lpc = "fetch"
    /\ fetch_calls' = fetch_calls + 1
    /\ \E raises \in BOOLEAN, n \in 0..MaxJobs :
        /\ cycles >= MaxBatches => n = 0
        /\ raises => n = 0
        /\ IF raises
           THEN /\ warned' = TRUE
                /\ lpc' = "finally"
                /\ UNCHANGED <<cycles, inflight, dispatched>>
           ELSE IF n = 0
           THEN /\ lpc' = "finally"
                /\ UNCHANGED <<cycles, inflight, dispatched, warned>>
           ELSE /\ cycles' = cycles + 1
                /\ inflight' = n
                /\ dispatched' = dispatched + n
                /\ lpc' = "run_once"
                /\ UNCHANGED warned
    /\ UNCHANGED <<handlers, exit_status, poolvars, summaries, clears, cleanup_calls,
                   bar_open, notlife>>

\* worker_loop: a job of the batch reaches its terminal outcome
LifeJobDone ==
    /\ Running /\ lpc = "run_once"
    /\ inflight > 0
    /\ inflight' = inflight - 1
    /\ UNCHANGED <<lpc, handlers, exit_status, poolvars, cycles, dispatched, fetch_calls,
                   summaries, clears, endvars, notlife>>

\* run_once: q.join() and the pool's with block are over; run() logs the
\* batch summary and the failure samples.  An exception of the summary line
\* leaves it unlogged, one of the samples loop comes after it; both go to the
\* except clause of run()
LifeSummary ==
    /\ Running /\ lpc = "run_once"
    /\ inflight = 0
    /\ \E raises \in BOOLEAN, logged \in BOOLEAN :
        /\ ~raises => logged
        /\ summaries' = IF logged THEN summaries + 1 ELSE summaries
        /\ warned' = (warned \/ raises)
        /\ lpc' = IF raises THEN "finally" ELSE "clear"
    /\ UNCHANGED <<handlers, exit_status, poolvars, cycles, inflight, dispatched, fetch_calls,
                   clears, cleanup_calls, bar_open, notlife>>

\* run(): self.clear_host_code_subdirs(); the listing of HOST_CODE_PATH
\* (iterdir, is_dir) is outside its try block and may raise
LifeClear ==
    /\ Running /\ lpc = "clear"
    /\ clears' = clears + 1
    /\ \E raises \in BOOLEAN :
        /\ warned' = (warned \/ raises)
        /\ lpc' = IF raises THEN "finally" ELSE "cont"
    /\ UNCHANGED <<handlers, exit_status, poolvars, cycles, inflight, dispatched, fetch_calls,
                   summaries, cleanup_calls, bar_open, notlife>>

\* run(): if not self.should_continue(): break   (a hook of the subclass: it
\* answers or raises)
LifeShouldContinue ==
    /\ Running /\ lpc = "cont"
    /\ \E raises \in BOOLEAN, continue \in BOOLEAN :
        /\ raises => ~continue
        /\ warned' = (warned \/ raises)
        /\ lpc' = IF continue THEN "fetch" ELSE "finally"
    /\ UNCHANGED <<handlers, exit_status, poolvars, loopvars, cleanup_calls, bar_open, notlife>>

\* run(): finally: the progress bar is closed, self.cleanup()
LifeFinallyElseOnly ==
    /\ Running /\ lpc = "finally"
    /\ bar_open' = (bar_open /\ warned)
    /\ cleanup_calls' = IF warned THEN cleanup_calls ELSE cleanup_calls + 1
    /\ lpc' = "final"
    /\ UNCHANGED <<handlers, exit_status, poolvars, loopvars, warned, notlife>>
LifeFinally ==
    /\ Running /\ lpc = "finally"
    /\ bar_open' = FALSE
    /\ cleanup_calls' = cleanup_calls + 1
    /\ lpc' = "final"
    /\ UNCHANGED <<handlers, exit_status, poolvars, loopvars, warned, notlife>>

\* run(): the final summary is logged, run() and main() return
LifeReturn ==
    /\ Running /\ lpc = "final"
    /\ SysExit(0)
    /\ UNCHANGED <<handlers, poolvars, loopvars, endvars, notlife>>

\* _signal_handler, run in the main thread wherever it stands: log, flush,
\* os._exit(128 + signum) -- no finally block, no thread is waited for
SignalDrains(signum) ==
    /\ Running /\ handlers
    /\ inflight' = 0
    /\ cleanup_calls' = cleanup_calls + 1
    /\ bar_open' = FALSE
    /\ exit_status' = 128 + signum
    /\ UNCHANGED <<lpc, handlers, poolvars, cycles, dispatched, fetch_calls, summaries, clears,
                   warned, notlife>>
_signal_handler(signum) ==
    /\ Running /\ handlers
    /\ exit_status' = 128 + signum
    /\ UNCHANGED <<lpc, handlers, poolvars, loopvars, endvars, notlife>>

LifeNext ==
    \/ InstallHandlers
    \/ Setup
    \/ ensure_docker_available
    \/ \E n \in 1..CONTAINER_COUNT : check_and_create(n)
    \/ Pass1Done
    \/ Pass2Step
    \/ Pass3Step
    \/ PoolReady
    \/ \E n \in 1..CONTAINER_COUNT : disable_offload_again(n)
    \/ LifeFetch
    \/ LifeJobDone
    \/ LifeSummary
    \/ LifeClear
    \/ LifeShouldContinue
    \/ LifeFinally
    \/ LifeReturn
    \/ \E signum \in Signals : _signal_handler(signum)

LifeInit == LifeStart /\ SchedIdle /\ SrcIdle /\ GateIdle /\ MoveIdle /\ PathIdle /\ StatIdle /\ CsvIdle /\ LockIdle

LifeSpec == LifeInit /\ [][LifeNext]_vars

\* ================================================ remove_from_csv, its lock
\* The worker threads of a batch call remove_from_csv from the callbacks of
\* the CSV-backed sources, each for the row of the job it has finished.  The
\* file is read whole, the first matching row dropped, and the file replaced
\* (temporary file + os.replace), all under self._csv_lock.
CsvWorkers == 1..Len(names)

\* a row_id argument: its text (0: no characters but blanks) with or without
\* blanks around it; str(row_id).strip() drops the blanks
RowIdArgs == [pad : BOOLEAN, text : 0..MaxRows]
strip(row_id) == row_id.text

\* the file is missing, has no header line, or holds any rows, ids may repeat;
\* the directory holds no temporary file
CsvStart ==
    /\ csv_kind \in {"missing", "no_header", "table"}
    /\ csv_file \in SeqsUpTo(RowIds, MaxRows)
    /\ csv_kind # "table" => csv_file = <<>>
    /\ csv_orig = csv_file
    /\ tmp_files = 0
    /\ csv_lock = 0
    /\ cpc = [w \in CsvWorkers |-> "idle"]
    /\ cid = [w \in CsvWorkers |-> 0]
    /\ carg = [w \in CsvWorkers |-> [pad |-> FALSE, text |-> 0]]
    /\ clocal = [w \in CsvWorkers |-> <<>>]

\* remove_from_csv(csv_path, row_id): target_id = str(row_id).strip();
\* if not target_id: return
CsvCall(w) ==
    /\ cpc[w] = "idle"
    /\ \E row_id \in RowIdArgs :
        LET target_id == strip(row_id)
        IN  /\ carg' = [carg EXCEPT ![w] = row_id]
            /\ cid' = [cid EXCEPT ![w] = target_id]
            /\ cpc' = [cpc EXCEPT ![w] = IF target_id = 0 THEN "returned" ELSE "acquire"]
    /\ UNCHANGED <<csv_file, csv_orig, csv_kind, tmp_files, csv_lock, clocal, notcsv>>

\* with self._csv_lock:
CsvAcquireNoLock(w) ==
    /\ cpc[w] = "acquire"
    /\ cpc' = [cpc EXCEPT ![w] = "read"]
    /\ UNCHANGED <<csv_file, csv_orig, csv_kind, tmp_files, carg, csv_lock, cid, clocal, notcsv>>
CsvAcquire(w) ==
    /\ cpc[w] = "acquire"
    /\ csv_lock = 0
    /\ csv_lock' = w
    /\ cpc' = [cpc EXCEPT ![w] = "read"]
    /\ UNCHANGED <<csv_file, csv_orig, csv_kind, tmp_files, carg, cid, clocal, notcsv>>

\* if not p.exists(): return; if reader.fieldnames is None: return;
\* rows = list(reader)
CsvRead(w) ==
    /\ cpc[w] = "read"
    /\ IF csv_kind = "table"
       THEN /\ clocal' = [clocal EXCEPT ![w] = csv_file]
            /\ cpc' = [cpc EXCEPT ![w] = "scan"]
            /\ UNCHANGED csv_lock
       ELSE /\ cpc' = [cpc EXCEPT ![w] = "returned"]
            /\ csv_lock' = 0
            /\ UNCHANGED clocal
    /\ UNCHANGED <<csv_file, csv_orig, csv_kind, tmp_files, carg, cid, notcsv>>

\* the scan for the first matching row; nothing removed: return.  Otherwise
\* the remaining rows are written to a temporary file (tempfile.mkstemp) that
\* replaces the file (os.replace); when that raises, os.unlink(tmp_path) is
\* tried, its OSError is passed over, and the exception is re-raised.  The
\* with block ends either way.
CsvWriteInPlace(w) ==
    /\ cpc[w] = "scan"
    /\ LET remaining_rows == remove_from_csv(clocal[w], cid[w])
           removed == remaining_rows # clocal[w]
       IN  IF ~removed
           THEN /\ cpc' = [cpc EXCEPT ![w] = "returned"]
                /\ UNCHANGED <<csv_file, tmp_files>>
           ELSE \E written \in BOOLEAN :
                  IF written
                  THEN /\ csv_file' = remaining_rows
                       /\ cpc' = [cpc EXCEPT ![w] = "returned"]
                       /\ UNCHANGED tmp_files
                  ELSE /\ cpc' = [cpc EXCEPT ![w] = "raised"]
                       /\ csv_file' = <<>>
                       /\ UNCHANGED tmp_files
    /\ csv_lock' = 0
    /\ UNCHANGED <<csv_orig, csv_kind, carg, cid, clocal, notcsv>>
CsvWrite(w) ==
    /\ cpc[w] = "scan"
    /\ LET remaining_rows == remove_from_csv(clocal[w], cid[w])
           removed == remaining_rows # clocal[w]
       IN  IF ~removed
           THEN /\ cpc' = [cpc EXCEPT ![w] = "returned"]
                /\ UNCHANGED <<csv_file, tmp_files>>
           ELSE \E written \in BOOLEAN, unlinked \in BOOLEAN :
                  IF written
                  THEN /\ csv_file' = remaining_rows
                       /\ cpc' = [cpc EXCEPT ![w] = "returned"]
                       /\ UNCHANGED tmp_files
                  ELSE /\ cpc' = [cpc EXCEPT ![w] = "raised"]
                       /\ tmp_files' = IF unlinked THEN tmp_files ELSE tmp_files + 1
                       /\ UNCHANGED csv_file
    /\ csv_lock' = 0
    /\ UNCHANGED <<csv_orig, csv_kind, carg, cid, clocal, notcsv>>

CsvNext ==
    \/ \E w \in CsvWorkers : CsvCall(w)
    \/ \E w \in CsvWorkers : CsvAcquire(w)
    \/ \E w \in CsvWorkers : CsvRead(w)
    \/ \E w \in CsvWorkers : CsvWrite(w)

CsvInit == CsvStart /\ SchedIdle /\ SrcIdle /\ GateIdle /\ MoveIdle /\ PathIdle /\ StatIdle /\ LifeIdle /\ LockIdle

CsvSpec == CsvInit /\ [][CsvNext]_vars

\* ============================================ the locks a worker thread takes
\* most jobs one worker thread takes from the queue
MaxUnits == 2
LockWorkers == 1..Len(names)

LockStart ==
    /\ lock_holder = [l \in Locks |-> 0]
    /\ tpc = [w \in LockWorkers |-> "pop"]
    /\ tunits = [w \in LockWorkers |-> 0]

\* threading.Lock.acquire via "with lock:": blocks while the lock is locked,
\* whoever locked it
acquire(l, w, to) ==
    /\ lock_holder[l] = 0
    /\ lock_holder' = [lock_holder EXCEPT ![l] = w]
    /\ tpc' = [tpc EXCEPT ![w] = to]
    /\ UNCHANGED tunits
\* the end of the with block, on every way out of it (return, exception, fall through)
release(l, w, to) ==
    /\ lock_holder' = [lock_holder EXCEPT ![l] = 0]
    /\ tpc' = [tpc EXCEPT ![w] = to]
    /\ UNCHANGED tunits

\* worker_loop: task = q.get_nowait(); except queue.Empty: return;
\* exec_once begins with self._wait_before_first_exec(container)
LockPop(w) ==
    /\ tpc[w] = "pop"
    /\ \/ /\ tunits[w] < MaxUnits
          /\ tunits' = [tunits EXCEPT ![w] = @ + 1]
          /\ tpc' = [tpc EXCEPT ![w] = "want_first_exec"]
       \/ /\ tpc' = [tpc EXCEPT ![w] = "returned"]
          /\ UNCHANGED tunits
    /\ UNCHANGED <<lock_holder, notlock>>

\* _wait_before_first_exec: with self._first_exec_lock:
FirstExecAcquire(w) ==
    /\ tpc[w] = "want_first_exec"
    /\ acquire("_first_exec_lock", w, "in_first_exec")
    /\ UNCHANGED notlock
\* ... return (container already done) or the end of the block; time.sleep(wait)
\* and the docker exec run with the lock released
FirstExecRelease(w) ==
    /\ tpc[w] = "in_first_exec"
    /\ release("_first_exec_lock", w, "docker")
    /\ UNCHANGED notlock

\* exec_once / worker_loop on the outcome of the attempt: process_result calls
\* on_task_success; a failure with attempts left is put back (q.put, q.task_done,
\* next get_nowait); the last failure goes to _handle_final_failure, which calls
\* on_task_failed first
LockExec(w) ==
    /\ tpc[w] = "docker"
    /\ \E to \in {"on_task_success", "on_task_failed", "pop"} : tpc' = [tpc EXCEPT ![w] = to]
    /\ UNCHANGED <<lock_holder, tunits, notlock>>

\* on_task_success / on_task_failed: "pass" in the base class; the CSV-backed
\* subclasses call remove_from_csv when the task has a row_id, and
\* remove_from_csv returns before the lock for an id that strips to nothing
LockCallback(w) ==
    /\ tpc[w] \in {"on_task_success", "on_task_failed"}
    /\ \E to \in {"want_csv", "want_stats"} : tpc' = [tpc EXCEPT ![w] = to]
    /\ UNCHANGED <<lock_holder, tunits, notlock>>

\* remove_from_csv: with self._csv_lock:
CsvLockAcquire(w) ==
    /\ tpc[w] = "want_csv"
    /\ acquire("_csv_lock", w, "in_csv")
    /\ UNCHANGED notlock
\* ... the block is left by a return, by its end or by the re-raised exception of a
\* failed rewrite, which the callback catches and logs
CsvLockRelease(w) ==
    /\ tpc[w] = "in_csv"
    /\ release("_csv_lock", w, "want_stats")
    /\ UNCHANGED notlock

\* worker_loop: with self._stats_lock: stats["ok"] += 1
\* _handle_final_failure: with self._stats_lock: stats["fail"] += 1; errors.append
StatsLockAcquire(w) ==
    /\ tpc[w] = "want_stats"
    /\ acquire("_stats_lock", w, "in_stats")
    /\ UNCHANGED notlock
\* the with block ends before self._update_progress(...) is called
StatsLockKeptForProgress(w) ==
    /\ tpc[w] = "in_stats"
    /\ tpc' = [tpc EXCEPT ![w] = "want_progress"]
    /\ UNCHANGED <<lock_holder, tunits, notlock>>
StatsLockRelease(w) ==
    /\ tpc[w] = "in_stats"
    /\ release("_stats_lock", w, "want_progress")
    /\ UNCHANGED notlock

\* _update_progress: with self._stats_lock:
ProgressLockAcquire(w) ==
    /\ tpc[w] = "want_progress"
    /\ acquire("_stats_lock", w, "in_progress")
    /\ UNCHANGED notlock
\* ... end of _update_progress; worker_loop: q.task_done(), next get_nowait
ProgressLockRelease(w) ==
    /\ tpc[w] = "in_progress"
    /\ release("_stats_lock", w, "pop")
    /\ UNCHANGED notlock

\* everything the worker thread w can do
LockThread(w) ==
    \/ LockPop(w)
    \/ FirstExecAcquire(w)
    \/ FirstExecRelease(w)
    \/ LockExec(w)
    \/ LockCallback(w)
    \/ CsvLockAcquire(w)
    \/ CsvLockRelease(w)
    \/ StatsLockAcquire(w)
    \/ StatsLockRelease(w)
    \/ ProgressLockAcquire(w)
    \/ ProgressLockRelease(w)

LockNext ==
    \/ \E w \in LockWorkers : LockPop(w)
    \/ \E w \in LockWorkers : FirstExecAcquire(w)
    \/ \E w \in LockWorkers : FirstExecRelease(w)
    \/ \E w \in LockWorkers : LockExec(w)
    \/ \E w \in LockWorkers : LockCallback(w)
    \/ \E w \in LockWorkers : CsvLockAcquire(w)
    \/ \E w \in LockWorkers : CsvLockRelease(w)
    \/ \E w \in LockWorkers : StatsLockAcquire(w)
    \/ \E w \in LockWorkers : StatsLockRelease(w)
    \/ \E w \in LockWorkers : ProgressLockAcquire(w)
    \/ \E w \in LockWorkers : ProgressLockRelease(w)

LockInit == LockStart /\ SchedIdle /\ SrcIdle /\ GateIdle /\ MoveIdle /\ PathIdle /\ StatIdle /\ LifeIdle /\ CsvIdle

\* every worker thread is scheduled: a thread that can take a step does not wait for ever
LockSpec ==
    /\ LockInit
    /\ [][LockNext]_vars
    /\ \A w \in LockWorkers : WF_vars(LockThread(w))

\* ============================================================== claims
\* run_once has returned and its stats / jobs are those of the batch just run
Returned == \/ ctl \in {"summary", "clear", "cont"}
            \/ (entry = "run_once" /\ ctl = "exit")

\* the queue of the current batch has been filled
BatchLive == ctl \in {"submit", "join", "summary", "clear", "cont"}
             \/ (entry = "run_once" /\ ctl = "exit")

Jobs == 1..njobs
Executing == {w \in Workers : wpc[w] = "exec"}
InQueue(j) == {i \in 1..Len(q) : q[i] = j}
Holders(j) == {w \in Workers : wtask[w] = j}

\* C1: when run_once returns, every submitted job has exactly one terminal
\* outcome and stats.ok + stats.fail equals the number of jobs submitted.
C1_NoJobLostOrDoubleCounted ==
    Returned =>
        /\ stats.ok + stats.fail = njobs
        /\ \A j \in Jobs : term[j] \in {"ok", "fail"}
        /\ stats.ok = Cardinality({j \in Jobs : term[j] = "ok"})
        /\ stats.fail = Cardinality({j \in Jobs : term[j] = "fail"})

\* a batch of three jobs returned with successes and failures, one success after a retry
C1_Witness ==
    /\ Returned
    /\ njobs = 3
    /\ stats.ok = 2
    /\ stats.fail = 1
    /\ \E j \in Jobs : term[j] = "ok" /\ attempt[j] > 0

\* C2: a job is executed at most RETRY + 1 times within a batch, its attempt
\* value never exceeds RETRY, and a job that used up the budget is not in the
\* queue again.
C2_AtMostBudgetPlusOneRuns ==
    \A j \in JobIds :
        /\ execs[j] <= RETRY + 1
        /\ attempt[j] <= RETRY
        /\ (execs[j] = RETRY + 1) => InQueue(j) = {}

\* a job was run RETRY + 1 times and ended as a terminal failure
C2_Witness ==
    \E j \in Jobs : execs[j] = RETRY + 1 /\ term[j] = "fail" /\ BatchLive

\* C3: never more than poolSize = len(names) exec_once calls in progress,
\* whatever the job count and in every batch.
C3_ConcurrencyBound == Cardinality(Executing) <= Len(names)

\* the whole pool is executing in the second batch
C3_Witness == Cardinality(Executing) = Len(names) /\ batch_num = 2

\* C4: for each container at most one exec_once call in progress is assigned
\* to it, and the threads of an earlier batch have all ended.
C4_OneWorkerPerSandbox ==
    /\ \A i \in 1..Len(names) :
         Cardinality({w \in Executing : container(w) = names[i]}) <= 1
    /\ \A w \in Workers : w[2] # gen => wpc[w] \in {"idle", "returned"}

\* in the second batch both containers execute, each driven by one thread of that batch
C4_Witness ==
    /\ batch_num = 2
    /\ \A i \in 1..Len(names) :
         \E w \in Executing : container(w) = names[i] /\ w[2] = gen

\* C5: every job of the batch is in exactly one place: once in the queue, or
\* held by exactly one worker, or terminal.
C5_ExclusiveOwnership ==
    BatchLive =>
        \A j \in Jobs :
            Cardinality(InQueue(j)) + Cardinality(Holders(j))
                + (IF term[j] # "none" THEN 1 ELSE 0) = 1

\* one job waits in the queue for its retry, one is held in backoff, one is terminal
C5_Witness ==
    /\ BatchLive
    /\ \E j1, j2, j3 \in Jobs :
        /\ InQueue(j1) # {} /\ attempt[j1] > 0
        /\ \E w \in Workers : wtask[w] = j2 /\ wpc[w] = "backoff"
        /\ term[j3] # "none"

\* C6: run_once returns only when no job of the batch is pending, running or
\* in backoff: every job is terminal.
C6_JoinBarrier ==
    Returned =>
        /\ q = <<>>
        /\ unfinished = 0
        /\ \A w \in Workers : wtask[w] = 0 /\ wpc[w] \in {"idle", "returned"}
        /\ \A j \in Jobs : term[j] # "none"

\* run_once returned from a batch in which a job was requeued
C6_Witness ==
    /\ Returned
    /\ njobs >= 2
    /\ \E j \in Jobs : attempt[j] > 0

\* C7: a raising callback is never fatal to the scheduler: no worker thread
\* ends because of it and none ends while it holds a job.
C7_CallbackNeverFatal ==
    \A w \in Workers : wpc[w] # "dead" /\ (wpc[w] = "returned" => wtask[w] = 0)

\* C8: for each job at most one callback invocation in total, and a terminal
\* job has exactly the invocation of its outcome.
C8_ReportedExactlyOnce ==
    \A j \in JobIds :
        /\ cbOk[j] + cbFail[j] <= 1
        /\ term[j] = "ok" => (cbOk[j] = 1 /\ cbFail[j] = 0)
        /\ term[j] = "fail" => (cbFail[j] = 1 /\ cbOk[j] = 0)

\* C9: whatever the failure kind of an attempt (non-zero exit, manifest,
\* timeout, exception), the worker requeues with attempt + 1 if
\* attempt < RETRY and takes the terminal-failure path with the attempt
\* unchanged otherwise.
C9_SameRetryRule ==
    [][\A w \in Workers :
        (wpc[w] = "exec" /\ wpc'[w] # "exec") =>
            LET j == wtask[w]
            IN  \/ wpc'[w] = "record_ok" /\ attempt'[j] = attempt[j]
                \/ IF attempt[j] < RETRY
                   THEN wpc'[w] = "backoff" /\ attempt'[j] = attempt[j] + 1
                   ELSE /\ wpc'[w] = "final" /\ attempt'[j] = attempt[j]
                        /\ wkind'[w] \in {"nonzero", "manifest", "timeout", "exception"}]_vars

\* a timeout takes the terminal path on one worker, a manifest failure on the
\* other, both after one requeue of their job
C9_Witness ==
    \E w1, w2 \in Workers :
        /\ wpc[w1] = "final" /\ wkind[w1] = "timeout" /\ attempt[wtask[w1]] = RETRY
        /\ wpc[w2] = "final" /\ wkind[w2] = "manifest" /\ attempt[wtask[w2]] = RETRY
        /\ RETRY > 0

\* C10: at the batch summary a terminally failed job was executed exactly
\* RETRY + 1 times, the summary counts are those of the jobs' outcomes, and in
\* the scenario (pool 2, 3 jobs, budget 1, one job always failing, the others
\* succeeding at once) the summary is ok=2 fail=1.
C10_AlwaysFailingJob ==
    ctl = "clear" =>
        /\ \A j \in Jobs : term[j] = "fail" => (execs[j] = RETRY + 1 /\ attempt[j] = RETRY)
        /\ summary.ok = Cardinality({j \in Jobs : term[j] = "ok"})
        /\ summary.fail = Cardinality({j \in Jobs : term[j] = "fail"})
        /\ summary.total = njobs
        /\ ( /\ Len(names) = 2 /\ njobs = 3 /\ RETRY = 1
             /\ \E f \in Jobs : /\ execs[f] = 2 /\ cbOk[f] = 0
                                /\ \A j \in Jobs \ {f} : execs[j] = 1 /\ cbOk[j] = 1 )
           => summary = [ok |-> 2, fail |-> 1, total |-> 3]

\* the scenario: job 1 failed twice and is terminal, jobs 2 and 3 succeeded at once
C10_Witness ==
    /\ ctl = "clear"
    /\ Len(names) = 2 /\ njobs = 3 /\ RETRY = 1 /\ raised = 0
    /\ execs[1] = 2 /\ term[1] = "fail" /\ cbFail[1] = 1
    /\ \A j \in {2, 3} : execs[j] = 1 /\ term[j] = "ok"
    /\ summary = [ok |-> 2, fail |-> 1, total |-> 3]

\* the threads run_once has started for the current batch
Started == {<<i, gen>> : i \in 1..submitted}

\* C11: while a job of the running batch has no terminal outcome yet, every worker
\* run_once started for the batch is still in its loop: none has returned or died.
C11_AllWorkersAliveWhileJobsRemain ==
    (ctl \in {"submit", "join"} /\ \E j \in Jobs : term[j] = "none")
        => \A w \in Started : wpc[w] \notin {"returned", "dead"}

\* C12: a job whose terminal failure was reported (on_task_failed) in one batch is
\* in no later batch of the same run: every job of the batch being run either has
\* no failure on record or had it recorded in this very batch.
C12_FailedJobNotFetchedAgain ==
    \A i \in 1..Len(jobs) : failedAt[jobs[i]] \in {0, Len(fetched)}

\* a later call of the gate for c is in progress
LaterCall(c) == calls[c] >= 2 /\ gpc[c] # "out"

\* C13: of the calls of the throttle gate made for one container only the first can
\* block: every step of a later call leaves the next-allowed timestamp and the seen
\* set as they are, requests no sleep and leads to the return.
C13_OnlyFirstCallBlocks ==
    [][\A c \in GateNames :
          (LaterCall(c) /\ gpc'[c] # gpc[c])
              => /\ first_exec_next_ts' = first_exec_next_ts
                 /\ first_exec_done' = first_exec_done
                 /\ slept'[c] = slept[c]
                 /\ gpc'[c] \in {"check", "out"}]_vars

\* a container that slept in its first call has made a second call, which returned
C13_Witness ==
    \E c \in GateNames : calls[c] = 2 /\ gpc[c] = "out" /\ slept[c] > 0
                         /\ c \in first_exec_done

\* C14 (as stated): the sleep the gate imposes on one container, summed over the
\* whole run, is at most one FIRST_EXEC_INTERVAL.
C14_DelayAtMostOneInterval ==
    \A c \in GateNames : slept[c] <= FIRST_EXEC_INTERVAL

\* C14 (amended): the sleep the gate imposes on one container, summed over the whole
\* run, is at most (pool size - 1) intervals.
C14_DelayAtMostPoolMinusOneIntervals ==
    \A c \in GateNames : slept[c] <= (Cardinality(GateNames) - 1) * FIRST_EXEC_INTERVAL

\* the last container of the pool has waited pool size - 1 intervals and is through
C14_Witness ==
    \E c \in GateNames : /\ slept[c] = (Cardinality(GateNames) - 1) * FIRST_EXEC_INTERVAL
                         /\ slept[c] > FIRST_EXEC_INTERVAL
                         /\ gpc[c] = "out"

\* C15: the scheduled first-exec times of two distinct containers are at least one
\* interval apart, whatever the interleaving of their gate passes; a later call for a
\* container schedules nothing and does not sleep.
C15_FirstExecsSpacedByInterval ==
    /\ \A c, d \in GateNames :
          (c # d /\ scheduled[c] >= 0 /\ scheduled[d] >= 0)
              => \/ scheduled[c] - scheduled[d] >= FIRST_EXEC_INTERVAL
                 \/ scheduled[d] - scheduled[c] >= FIRST_EXEC_INTERVAL
    /\ \A c \in GateNames : LaterCall(c) => gpc[c] \notin {"write", "sleep"}

\* two containers entered the gate in the same tick and were scheduled exactly one
\* interval apart; one of them has since made a later call
C15_Witness ==
    \E c, d \in GateNames :
        /\ c # d /\ {c, d} \subseteq first_exec_done
        /\ scheduled[d] - scheduled[c] = FIRST_EXEC_INTERVAL
        /\ wait[d] = FIRST_EXEC_INTERVAL
        /\ calls[c] = 2 /\ gpc[c] = "out"

\* C16: run() makes no fetch_jobs call after one that returned nothing and is then
\* at its end; with a subclass whose should_continue() is False (the CSV-backed
\* ones) it makes one fetch_jobs call and runs one batch, whatever rows are left.
C16_StopsOnEmptyFetchOrNoContinue ==
    /\ \A i \in 1..(Len(fetched) - 1) : fetched[i] > 0
    /\ (fetched # <<>> /\ fetched[Len(fetched)] = 0) => (rctl = "done" /\ jobs = <<>>)
    /\ source \in {"csv", "github"} => Len(fetched) <= 1

\* the CSV-backed run is over after its one batch although rows are still pending
C16_Witness ==
    /\ source = "csv" /\ rctl = "done"
    /\ Len(fetched) = 1 /\ fetched[1] > 0
    /\ rows # <<>>
    /\ \A i \in 1..Len(jobs) : outcome[i] # "none"

\* the manifest lacks a required path: an entry is absent, null or empty
LacksPath == \E i \in 1..Len(RequiredPaths) : ~Truthy(manifest[i])

\* C17: when the result manifest lacks any of the required paths, process_result
\* moves no file and does not invoke on_task_success, and what it reports is a
\* failure.
C17_MissingPathFailsBeforeAnyMove ==
    LacksPath => /\ moved = 0
                 /\ success_calls = 0
                 /\ ppc \in {"read", "validate", "done"}
                 /\ ppc = "done" => presult \in {"result JSON missing required paths",
                                                 "post-processing error"}

\* a manifest with four paths and an empty screenshot_path was validated and refused
C17_Witness ==
    /\ ppc = "done"
    /\ presult = "result JSON missing required paths"
    /\ \A i \in 1..(Len(RequiredPaths) - 1) : Truthy(manifest[i])
    /\ manifest[Len(RequiredPaths)] = ""

\* the path with only its leading sandbox prefix replaced by the host code root
LeadingPrefixRewritten ==
    IF StartsWith(path, SandboxPrefix)
    THEN HOST_CODE_PATH \o Rest(path, Len(SandboxPrefix) + 1)
    ELSE path

\* C18: the container-to-host conversion replaces the leading sandbox prefix of a
\* path and nothing else, and converting an already converted path returns it
\* unchanged, for every host code root and every path.
C18_RewriteIdempotentLeadingPrefixOnly ==
    /\ Len(rewrites) >= 1 => rewrites[1] = LeadingPrefixRewritten
    /\ Len(rewrites) = 2 => rewrites[2] = rewrites[1]

\* worker w, holding a job, takes the step that decides to put it back
DecidesRequeue(w) == wtask[w] # 0 /\ wpc[w] # "backoff" /\ wpc'[w] = "backoff"

\* worker w takes the step that puts its job back into the queue
PutsBack(w) == wpc[w] = "backoff" /\ wpc'[w] # "backoff"

\* C19: within a batch the retry counter of a job changes only by + 1, exactly at the
\* decision to requeue it, and each requeue puts the job back once without touching
\* the counter; _start_time is set at the job's first pop and never changes after.
C19_RetryCountAndStartTime ==
    [][ctl # "run_once" =>
        /\ \A j \in JobIds :
            /\ attempt'[j] # attempt[j]
                 => /\ attempt'[j] = attempt[j] + 1
                    /\ \E w \in Workers : wtask[w] = j /\ DecidesRequeue(w)
            /\ start_time'[j] # start_time[j]
                 => start_time[j] = 0 /\ execs[j] = 0 /\ execs'[j] = 1
            /\ execs'[j] > 0 => start_time'[j] # 0
        /\ \A w \in Workers :
            /\ DecidesRequeue(w) => attempt'[wtask[w]] = attempt[wtask[w]] + 1
            /\ PutsBack(w) => /\ attempt'[wtask[w]] = attempt[wtask[w]]
                              /\ q' = Append(q, wtask[w])]_vars

\* a job was requeued once and popped again: counter 1, start time that of the first pop
C19_Witness ==
    \E j \in Jobs : /\ execs[j] = 2 /\ attempt[j] = 1 /\ start_time[j] = 1
                    /\ \E w \in Workers : wtask[w] = j /\ wpc[w] = "exec"

\* a worker thread changes a counter in this step
CounterWritten == sctl = "run" /\ sctl' = "run" /\ statcounters' # statcounters

\* the thread taking this step holds the stats lock
WriterHoldsLock == \E w \in StatWorkers : stats_lock = w /\ spc'[w] # spc[w]

\* C20 (as stated): the worker threads change the counters only while holding the
\* stats lock, and both stats.ok + stats.fail and _global_ok + _global_fail are at
\* most the number of jobs of the current batch, in every batch.
C20_CountersWithinCurrentBatch ==
    [][/\ CounterWritten => WriterHoldsLock
       /\ batch_stats'.ok + batch_stats'.fail <= batch_jobs'
       /\ global_ok' + global_fail' <= batch_jobs']_vars

\* C20 (amended): the worker threads change the counters only while holding the
\* stats lock; stats.ok + stats.fail is at most the number of jobs of the current
\* batch, and _global_ok + _global_fail is at most the number of jobs of all the
\* batches fetched so far.
C20_CountersWithinBatchAndRun ==
    [][/\ CounterWritten => WriterHoldsLock
       /\ batch_stats'.ok + batch_stats'.fail <= batch_jobs'
       /\ global_ok' + global_fail' <= jobs_total']_vars

\* in a second batch every job of both batches has been counted
C20_Witness ==
    /\ jobs_total > batch_jobs
    /\ batch_stats.ok + batch_stats.fail = batch_jobs
    /\ global_ok + global_fail = jobs_total
    /\ batch_stats.ok > 0 /\ batch_stats.fail > 0


\* The number of (job, error) samples the batch summary shows:
\* stats["errors"][:10] in run() (scaled to the batch sizes explored here)
ERROR_SAMPLES == 2

\* C21: the list of (job, error) samples kept in the batch's stats never holds
\* more than the cap, however many jobs of the batch fail terminally.
C21_ErrorSampleListBounded ==
    stats.errors <= ERROR_SAMPLES

\* the worker that writes to the progress bar in this step
PbarWriter(w) ==
    /\ pbar' # pbar
    /\ spc[w] = "in_progress"
    /\ spc'[w] # "in_progress"

\* C22: no worker writes to the progress bar (set_description / update) while
\* it holds the stats lock: the lock covers the counter updates only.
C22_NoProgressOutputUnderStatsLock ==
    [][\A w \in StatWorkers : PbarWriter(w) => stats_lock # w]_vars

\* prepare_pool_once has returned its list of names to run()
PoolReturned == lpc \in {"fetch", "run_once", "clear", "cont", "finally", "final"} \/ fetch_calls > 0

\* C23: prepare_pool_once returns only when every container of the pool exists
\* and is running, and once the creation of a container has failed the pool
\* is never returned, no job is dispatched and the process does not end with
\* status 0 (a failed start ends the process on the spot, see Pass2Step).
C23_CreationOrStartFailureIsFatal ==
    /\ PoolReturned => \A n \in 1..CONTAINER_COUNT : container_exists(n) /\ container_running(n)
    /\ exc_in_pool # {} => /\ ~PoolReturned
                           /\ dispatched = 0
                           /\ exit_status # 0

\* a fatal start-up error has happened: setup() or the docker check or a
\* start has ended the process (status 1 or 2), or a creation has failed
FatalStartupError == exit_status \in {1, 2} \/ exc_in_pool # {}

\* C24: after a fatal start-up error fetch_jobs is never called, no job is
\* dispatched and the process does not end with status 0; a run that ends
\* without such an error (and without a signal) ends with status 0.
C24_FatalErrorsAbortBeforeAnyBatch ==
    /\ FatalStartupError => /\ fetch_calls = 0
                            /\ dispatched = 0
                            /\ exit_status # 0
    /\ (lpc = "exited" /\ ~FatalStartupError) => exit_status = 0

\* the exit statuses of an interrupted process: 128 + SIGINT, 128 + SIGTERM
SignalStatuses == {128 + signum : signum \in Signals}

\* C25: once the handlers are installed an interrupt can be taken in every
\* state of the run; the step that takes it sets the exit status to
\* 128 + signum and changes nothing else (jobs in flight stay in flight, no
\* summary, no cleanup(), the progress bar is not closed), and nothing happens
\* in the process after it.
C25_InterruptExitsImmediately ==
    /\ []((Running /\ handlers) => \A signum \in Signals : ENABLED _signal_handler(signum))
    /\ [][Running]_vars
    /\ [][/\ Running
          /\ exit_status' \in SignalStatuses =>
                /\ handlers
                /\ UNCHANGED <<lpc, poolvars, loopvars, endvars>>]_vars

C25_Witness ==
    /\ exit_status \in SignalStatuses
    /\ lpc = "run_once"
    /\ inflight > 0
    /\ cleanup_calls = 0
    /\ bar_open

\* number of rows of rs whose id is x
CountId(rs, x) == Cardinality({i \in 1..Len(rs) : rs[i] = x})

\* rs without the rows whose id is in S, order kept
Without(rs, S) == SelectSeq(rs, LAMBDA x : x \notin S)

\* C26: when two concurrent calls of remove_from_csv with different ids have
\* both returned, exactly one row of each id that was in the file is gone
\* (no lost update), the count of every other id is what it was, and the rows
\* that are left stand in their original order.
C26_ConcurrentRemovalsBothApplied ==
    \A v, w \in CsvWorkers :
        (/\ cpc[v] = "returned" /\ cpc[w] = "returned"
         /\ cid[v] # cid[w]) =>
            /\ \A x \in {cid[v], cid[w]} :
                  CountId(csv_file, x) =
                      IF CountId(csv_orig, x) > 0 THEN CountId(csv_orig, x) - 1 ELSE 0
            /\ \A x \in RowIds \ {cid[v], cid[w]} : CountId(csv_file, x) = CountId(csv_orig, x)
            /\ Without(csv_file, {cid[v], cid[w]}) = Without(csv_orig, {cid[v], cid[w]})
            /\ csv_file = remove_from_csv(remove_from_csv(csv_orig, cid[v]), cid[w])

C26_Witness ==
    /\ \A w \in CsvWorkers : cpc[w] = "returned"
    /\ cid[1] # cid[2]
    /\ CountId(csv_orig, cid[1]) = 2
    /\ CountId(csv_orig, cid[2]) = 1
    /\ Len(csv_file) = 1

\* job j is terminal, waits in the queue or is held by a worker
Accounted(j) == term[j] \in {"ok", "fail"} \/ InQueue(j) # {} \/ Holders(j) # {}

\* C27: an exception raised while a job is handled costs that job an attempt
\* and nothing else: no worker thread is ended by it, the job stays accounted
\* for (terminal, queued or held by a live worker), and the batch is not left
\* unfinished (when all threads of the pool are over the join can return).
C27_JobFailuresContained ==
    BatchLive =>
        /\ \A w \in Workers : wpc[w] = "dead" => gen # w[2]
        /\ \A j \in Jobs : Accounted(j) /\ \A w \in Holders(j) : wpc[w] # "dead"
        /\ (ctl = "join" /\ PoolExited(gen)) => QueueJoined

\* C28: on_task_success is called only when all five files have been moved,
\* with exactly the paths the five moves returned; when a move fails it is not
\* called and the attempt is recorded as a failure; the attempt is recorded as
\* ok (stats["ok"] += 1) only when the callback has been called and returned.
C28_CallbackAfterAllMovesOkAfterCallback ==
    /\ success_calls > 0 =>
          /\ moved = Len(RequiredPaths)
          /\ cb_paths = [i \in 1..Len(RequiredPaths) |-> new_path(i)]
          /\ cb_paths = new_paths
    /\ (ppc = "done" /\ moved < Len(RequiredPaths)) =>
          /\ success_calls = 0
          /\ cb_paths = <<>>
          /\ presult # "ok"
          /\ reported # "ok"
    /\ reported = "ok" => success_calls = 1 /\ presult = "ok" /\ ppc = "done"

\* two files were moved, the third move failed, the attempt was recorded as failed
C28_Witness ==
    /\ reported = "fail"
    /\ moved = 2
    /\ success_calls = 0

\* all files moved, the callback returned, the attempt was recorded as ok
C28_WitnessOk ==
    /\ reported = "ok"
    /\ moved = Len(RequiredPaths)
    /\ success_calls = 1

\* job j waits in the queue for a retry
RetryPending(j) == InQueue(j) # {} /\ attempt[j] > 0

\* the worker thread of container names[i] in the current batch can still pop
CanPop(i) == wpc[<<i, gen>>] \notin {"returned", "dead"}

\* C29: while a requeued job waits in the shared queue for its retry, the
\* worker of every container of the pool can still pop it: no container is
\* ruled out as the executor of the retry.
C29_EveryContainerCanRunRetry ==
    BatchLive => \A j \in Jobs : RetryPending(j) => \A i \in 1..Len(names) : CanPop(i)

\* the steps of a cycle of run(), as pairs of controller positions
CycleOrder ==
    {<<"fetch", "run_once">>, <<"fetch", "final">>, <<"run_once", "submit">>,
     <<"submit", "join">>, <<"join", "summary">>, <<"summary", "clear">>,
     <<"clear", "cont">>, <<"cont", "fetch">>, <<"cont", "final">>, <<"final", "exit">>}

\* C30: run() moves through a cycle in the order fetch, fill a fresh queue,
\* one worker per container, join, summary, scratch cleanup, should_continue:
\* the queue a batch starts with holds exactly its jobs and its stats are
\* zero, the join is left only when all workers are submitted and over, the
\* cleanup stands between every summary and the next fetch, and outside a
\* batch nothing touches the queue or the stats.
C30_CycleOrderFreshQueueAndStats ==
    [][entry = "run" =>
        /\ ctl' # ctl => <<ctl, ctl'>> \in CycleOrder
        /\ (ctl = "run_once" /\ ctl' = "submit") =>
              /\ q' = [i \in 1..njobs |-> i]
              /\ unfinished' = njobs
              /\ stats' = [ok |-> 0, fail |-> 0, errors |-> 0]
              /\ \A w \in Workers : wpc[w] \in {"idle", "returned"}
        /\ (ctl = "submit" /\ ctl' = "join") => submitted' = Len(names)
        /\ (ctl = "join" /\ ctl' = "summary") => QueueJoined /\ PoolExited(gen)
        /\ ctl \notin {"run_once", "submit", "join"} => UNCHANGED <<q, unfinished, stats>>]_vars

\* the second batch of a run went through summary and cleanup after a first
\* batch that had counted outcomes
C30_Witness ==
    /\ entry = "run"
    /\ batch_num = 2
    /\ ctl = "cont"
    /\ summary.total = njobs
    /\ stats.ok + stats.fail = njobs
    /\ njobs = 1

\* the step is a call of disable_offload_once on container n
HookCall(n) == hook_calls'[n] # hook_calls[n]

\* C31: Pass 3 calls the tuning hook only on containers this prepare call has
\* created (a name is put on that list only when the container was absent),
\* and only when every task of Pass 1 has ended and every container is
\* running; a call of the hook on a container that holds the sentinel file
\* changes nothing in it and reports success.
C31_HookOnCreatedOnlyAfterStartIdempotent ==
    [][\A n \in 1..CONTAINER_COUNT :
        /\ (n \in created' /\ n \notin created) => ~container_exists(n)
        /\ (n \in tuned' /\ n \notin tuned) =>
              /\ n \in created
              /\ HookCall(n)
              /\ mapped = 1..CONTAINER_COUNT
              /\ \A m \in 1..CONTAINER_COUNT : container_running(m)
        /\ (HookCall(n) /\ n \in sentinel) =>
              /\ hook_rc'[n] = 0
              /\ UNCHANGED <<sentinel, offload_off, cstate>>]_vars

\* one container existed and was left alone, the other was created, tuned in
\* Pass 3 and the hook was then called on it once more
C31_Witness ==
    /\ created = {2}
    /\ tuned = {2}
    /\ hook_calls = <<0, 2>>
    /\ hook_rc[2] = 0
    /\ sentinel = {2}

\* worker w completes a call of _update_progress in this step
Records(w) == spc[w] = "in_progress" /\ spc'[w] = "work"

\* C32: a call of _update_progress adds one to exactly one of _global_ok and
\* _global_fail (the one of its outcome), leaves the other alone and adds the
\* job's elapsed time to _global_task_time; no increment is lost: at every
\* batch boundary the two counters equal the sums of stats["ok"] and
\* stats["fail"] of the batches run so far.
C32_EachRecordCountsOnceNoneLost ==
    /\ [][\A w \in StatWorkers : Records(w) =>
            /\ global_ok' = global_ok + (IF sok[w] THEN 1 ELSE 0)
            /\ global_fail' = global_fail + (IF sok[w] THEN 0 ELSE 1)
            /\ global_task_time' = global_task_time + selapsed[w]]_vars
    /\ [](sctl \in {"fetch", "done"} => global_ok = done_ok /\ global_fail = done_fail)

\* two batches are over, with successes and failures recorded by both workers
C32_Witness ==
    /\ sctl = "fetch"
    /\ done_ok = 2
    /\ done_fail = 2
    /\ global_ok = 2
    /\ global_fail = 2
    /\ global_task_time > 4
    /\ pbar = 4

\* every worker thread of the current batch has left worker_loop
AllWorkersExited == \A i \in 1..Len(names) : wpc[<<i, gen>>] = "returned"

\* C33: with callbacks that return normally and fairly scheduled threads, a
\* batch handed to run_once leads to the return of run_once: the join has
\* returned and every worker thread has left its loop.
C33_EveryBatchTerminates ==
    (ctl = "run_once") ~> (Returned /\ AllWorkersExited)

\* run_once returned from a full batch in which a job was requeued and no
\* callback raised
C33_Witness ==
    /\ Returned
    /\ AllWorkersExited
    /\ raised = 0
    /\ njobs = MaxJobs
    /\ \E j \in Jobs : attempt[j] = RETRY /\ term[j] = "fail"

\* the worker thread has left worker_loop (by its return or by an exception)
Exited(w) == wpc[w] \in {"returned", "dead"}

\* C34: when every worker thread of the batch has left its loop (by its return
\* or by an exception), the queue is empty and no worker sits in the backoff
\* before a requeue; a worker that returned holds no job.
C34_NoJobStrandedInQueue ==
    BatchLive =>
        /\ (submitted = Len(names) /\ \A w \in Started : Exited(w)) =>
              /\ q = <<>>
              /\ \A w \in Workers : wpc[w] # "backoff"
        /\ \A w \in Workers : wpc[w] = "returned" => wtask[w] = 0

\* workers that took a job with get_nowait and have not yet called q.task_done()
\* for it; a worker ended by an exception out of worker_loop never calls it
Unacknowledged == {w \in Workers : wpc[w] \in {"exec", "record_ok", "backoff", "final", "taskdone", "dead"}}

BetweenBatches == entry = "run" /\ (ctl \in {"clear", "cont"} \/ (ctl = "fetch" /\ batch_num > 0))

\* C36: clear_host_code_subdirs and the fetch_jobs call after a batch run only
\* while no worker thread of any batch is alive and no unit of work is in
\* progress: no job is held, executing, or waiting for its task_done.
C36_ScratchAndFetchOnlyWhenQuiescent ==
    BetweenBatches =>
        /\ \A w \in Workers : wpc[w] \in {"idle", "returned"} /\ wtask[w] = 0
        /\ Executing = {}
        /\ Unacknowledged = {}
C36_Witness ==
    /\ entry = "run" /\ ctl = "fetch" /\ batch_num > 0
    /\ \E w \in Workers : wpc[w] = "returned"
    /\ \E j \in Jobs : execs[j] > 1

\* the lock a worker thread is blocked on or about to take ("": none), and the
\* lock whose with block it is inside
Wants(w) ==
    CASE tpc[w] = "want_first_exec" -> "_first_exec_lock"
      [] tpc[w] = "want_csv" -> "_csv_lock"
      [] tpc[w] \in {"want_stats", "want_progress"} -> "_stats_lock"
      [] OTHER -> ""
Inside(w) ==
    CASE tpc[w] = "in_first_exec" -> "_first_exec_lock"
      [] tpc[w] = "in_csv" -> "_csv_lock"
      [] tpc[w] \in {"in_stats", "in_progress"} -> "_stats_lock"
      [] OTHER -> ""
HeldBy(w) == {l \in Locks : lock_holder[l] = w}

\* C37: the three locks cannot deadlock: a worker holds at most one of them, and
\* only inside that lock's block; it never waits for a lock it holds itself or
\* while holding another; and every worker waiting for a lock gets it.
C37_LocksCannotDeadlock ==
    /\ [](\A w \in LockWorkers :
            /\ Cardinality(HeldBy(w)) <= 1
            /\ HeldBy(w) = (IF Inside(w) = "" THEN {} ELSE {Inside(w)})
            /\ Wants(w) # "" => HeldBy(w) = {})
    /\ \A w \in LockWorkers : \A l \in Locks :
          (Wants(w) = l) ~> (lock_holder[l] = w)
C37_Witness ==
    \E w \in LockWorkers :
        /\ tpc[w] = "want_progress"
        /\ tunits[w] = MaxUnits
        /\ lock_holder["_stats_lock"] \notin {0, w}

\* C38: an exception that leaves the batch loop of run() is logged as a
\* warning from the loop and ends it: no fetch, batch, summary or scratch
\* clearing follows; the finally block closes the progress bar and calls
\* cleanup() once; unless a signal ends the process first, the run ends with
\* the final summary and status 0, after exactly one cleanup().
C38_LoopExceptionEndsRunCleanly ==
    /\ [](warned => lpc \in {"finally", "final", "exited"})
    /\ []((warned /\ lpc = "finally") => cleanup_calls = 0 /\ bar_open)
    /\ []((warned /\ lpc = "final") => cleanup_calls = 1 /\ ~bar_open)
    /\ []((warned /\ lpc = "exited" /\ exit_status \notin SignalStatuses) =>
              /\ exit_status = 0
              /\ cleanup_calls = 1
              /\ ~bar_open)
    /\ [][(~warned /\ warned') =>
              /\ lpc \in {"fetch", "run_once", "clear", "cont"}
              /\ lpc' = "finally"]_vars
    /\ [][warned => /\ warned'
                    /\ UNCHANGED <<cycles, inflight, dispatched, fetch_calls, summaries, clears>>]_vars
    /\ [][(warned /\ lpc = "final" /\ lpc' # lpc) => exit_status' = 0]_vars
\* a batch ran, its summary raised, and the run ended with status 0
C38_Witness ==
    /\ warned
    /\ lpc = "exited" /\ exit_status = 0
    /\ cycles = 1 /\ summaries = 0 /\ clears = 0
    /\ cleanup_calls = 1

\* the call of worker w returns / raises in this step
CsvReturns(w) == cpc[w] # "returned" /\ cpc'[w] = "returned"
CsvRaises(w) == cpc[w] # "raised" /\ cpc'[w] = "raised"
\* ... and has nothing to delete: blank id, no file, no header, no matching row
NothingToDelete(w) ==
    \/ strip(carg'[w]) = 0
    \/ csv_kind \in {"missing", "no_header"}
    \/ CountId(csv_file, cid'[w]) = 0
\* the file at CSV_PATH as a reader finds it
CsvContent == <<csv_kind, csv_file>>

\* C39 as stated: a call with nothing to delete returns with the file as it
\* was, and a call whose rewrite fails leaves the file as it was and no
\* temporary file behind.
C39_NothingToDeleteOrFailedRewriteLeavesNoTrace ==
    /\ [][\A w \in CsvWorkers :
            /\ (CsvReturns(w) /\ NothingToDelete(w)) => UNCHANGED <<CsvContent, tmp_files>>
            /\ CsvRaises(w) => UNCHANGED CsvContent]_vars
    /\ [](tmp_files = 0)

\* C39, amended: a call with nothing to delete returns with the file and the
\* directory as they were; the file changes only by the removal of the first
\* matching row; a call whose rewrite fails leaves the file as it was and tries
\* to remove its temporary file, so at most one temporary file per failed call
\* is left behind (when the removal fails too).
C39_FileUntouchedTempRemovalBestEffort ==
    /\ [][\A w \in CsvWorkers :
            /\ (CsvReturns(w) /\ NothingToDelete(w)) => UNCHANGED <<CsvContent, tmp_files>>
            /\ CsvRaises(w) => /\ UNCHANGED CsvContent
                               /\ tmp_files' \in {tmp_files, tmp_files + 1}]_vars
    /\ [][CsvContent' # CsvContent =>
            \E w \in CsvWorkers :
                /\ CsvReturns(w)
                /\ CountId(csv_file, cid[w]) > 0
                /\ csv_kind' = "table"
                /\ csv_file' = remove_from_csv(csv_file, cid[w])]_vars
    /\ [](tmp_files <= Cardinality({w \in CsvWorkers : cpc[w] = "raised"}))
\* one call had a blank-padded empty id and returned, the rewrite of the other
\* failed and so did the removal of its temporary file
C39_Witness ==
    /\ \E w \in CsvWorkers : cpc[w] = "returned" /\ carg[w] = [pad |-> TRUE, text |-> 0]
    /\ \E w \in CsvWorkers : cpc[w] = "raised"
    /\ tmp_files = 1
    /\ csv_file = csv_orig /\ csv_file # <<>>

====
